---- MODULE Spec2Model ----
(***************************************************************************)
(* State-machine model of the LiveKit FFI backend                          *)
(* (livekit_ffi/src/backend_livekit.rs): the client state guarded by one   *)
(* mutex, the registry of audio pipelines with their SPSC rings and pacing *)
(* workers, and the reliability-tiered data sender.                        *)
(***************************************************************************)
EXTENDS Integers, Sequences, FiniteSets, TLC

VARIABLES
    room,                    \* ClientState.room: NoRoom or the session held
    role,                    \* ClientState.role
    audio_tracks,            \* ClientState.audio_tracks: id -> AudioPipeline
    default_audio_track_id,  \* ClientState.default_audio_track_id (NoId = None)
    next_audio_track_id,     \* ClientState.next_audio_track_id
    data_stats,              \* ClientState.data_stats (four atomic counters)
    data_labels,             \* ClientState.data_labels (default topics)
    wire,                    \* what the last send asked of the connection
    handles,                 \* live LkAudioTrackHandle boxes (their track_id)
    lock,                    \* holder of the ClientState mutex
    pushOp,                  \* AudioPipeline::push in progress (under the lock)
    sendOp,                  \* lk_send_data_ex in progress (under the lock)
    res,                     \* LkResult of the last API call that returned
    nextConn,                \* sessions opened so far (names Room objects)
    nextSample,              \* next fresh PCM sample value the caller pushes
    abandoned,               \* samples a push gave up on (ring full)
    work,                    \* budget of the run spent so far
    pending,                 \* lk_connect_with_role_async tasks in flight
    nextTask,                \* async connect tasks spawned so far
    callbacks,               \* ClientState.data_cb, data_cb_ex, connection_cb, audio_cb
                             \* (set or None) and, per slot, which (cb, user) it holds
    audio_output_format,     \* ClientState.audio_output_format
    events,                  \* per session: the RoomEvent receiver's queue
    dispatch,                \* per session: what its event loop is handling
    arrived,                 \* inbound events delivered so far (arrival numbers)
    cbLog,                   \* what the event loops and the foreign callbacks did, in order
    discarded,               \* what the last call that may register a pipeline built and,
                             \* returning an error, dropped again
    forwards,                \* the forwarding tasks spawned for subscribed remote audio tracks
    destroyed                \* lk_client_destroy has returned: the Box<Client> is gone

clientVars == <<room, role, nextConn>>
registryVars == <<audio_tracks, default_audio_track_id, next_audio_track_id, handles>>
pushVars == <<pushOp, nextSample, abandoned>>
dataVars == <<data_stats, data_labels, wire, sendOp>>
inboundVars == <<pending, nextTask, callbacks, audio_output_format, events,
                 dispatch, arrived, cbLog>>
taskVars == <<discarded, forwards, destroyed>>
vars == <<clientVars, registryVars, pushVars, dataVars, lock, res, work,
          inboundVars, taskVars>>

----------------------------------------------------------------------------
(* Bounds of the model *)
\* A run spends one unit of work per session opened, per registration
\* attempted, per PCM sample handed to a push, per pacing tick that finds
\* nothing to deliver, per send call, per callback or label registration
\* and per inbound event.
MaxWork == 5
IdModulus == 8         \* width of the id counter (2^64 in the source)

Spend(n) == work + n <= MaxWork /\ work' = work + n

(* Program constants *)
NoRoom == 0
NoId == 0 - 1
LOSSY_MAX == 1300
RELIABLE_MAX == 15 * 1024
DEFAULT_BUFFER_MS == 1000

Roles == {"Publisher", "Both"}
\* (sample_rate, channels, buffer_ms) the caller asks for
Formats == { [sample_rate |-> 20,  channels |-> 1, buffer_ms |-> 100],
             [sample_rate |-> 20,  channels |-> 2, buffer_ms |-> 0] }
Labels == {"ue-audio-track"}

Max(a, b) == IF a >= b THEN a ELSE b
Min(a, b) == IF a <= b THEN a ELSE b
Clamp(x, lo, hi) == Max(lo, Min(x, hi))

\* What the caller got back last: the API function that returned and its
\* LkResult, the code and the message text (a sequence: the fixed prefix
\* followed by the wrapped cause; empty for the null message of ok())
ok(op) == [op |-> op, code |-> 0, msg |-> << >>]
err(op, code, msg) == [op |-> op, code |-> code, msg |-> msg]

NoPush == [active |-> FALSE]
NoSend == [active |-> FALSE]
NoWire == [attempts |-> 0, reliability |-> "none", tier |-> "none",
           topic |-> "none", len |-> 0]
NullLabel == "<null>"
\* a C string whose bytes are not valid UTF-8
NonUtf8 == "<non-utf8>"

\* cstr: the &str of a C string, an error for a null pointer and for bytes
\* that are not UTF-8
cstr(p) ==
    IF p = NullLabel \/ p = NonUtf8 THEN [okay |-> FALSE]
    ELSE [okay |-> TRUE, s |-> p]

\* async connection attempts a disconnect has overtaken (stale records
\* that the attempt was issued before a disconnect that has returned)
Overtaken(tasks) == {[t EXCEPT !.stale = TRUE] : t \in tasks}

\* the event loop of a session waiting in events.recv(); done is the
\* arrival number of the last event it has finished with
Idle == [busy |-> FALSE, done |-> 0]

\* Room::connect returned Ok((room, events)): session s has its receiver and
\* (once spawned) its event loop
OpenSession(s) ==
    /\ events' = (s :> << >>) @@ events
    /\ dispatch' = (s :> Idle) @@ dispatch

\* faulty variant: the caller keeps the (cb, user) pair registered first
CallFirstRegistered(cb, s, seq, arg) ==
    << [what |-> "call", cb |-> cb, session |-> s, seq |-> seq, arg |-> arg,
        user |-> 1],
       [what |-> "return", cb |-> cb, session |-> s, seq |-> seq, arg |-> arg,
        user |-> 1] >>

\* one invocation of a foreign callback, entered and returned: cb(user.0, ..)
\* with the (cb, user) pair the slot holds when the caller reads it
Call(cb, s, seq, arg) ==
    << [what |-> "call", cb |-> cb, session |-> s, seq |-> seq, arg |-> arg,
        user |-> callbacks.user[cb]],
       [what |-> "return", cb |-> cb, session |-> s, seq |-> seq, arg |-> arg,
        user |-> callbacks.user[cb]] >>

\* if let Some((cb, user)) = g.connection_cb.as_ref() { cb(user.0, state, ..) }
\* by a caller that holds the lock until the callback has returned
NotifyConnection(state) ==
    cbLog' = IF callbacks.connection_cb
               THEN cbLog \o Call("connection_cb", 0, 0, state)
               ELSE cbLog

\* the same for the outcome of async attempt t:
\* cb(user.0, state, reason_code, message)
NotifyAttempt(t, state, reason_code) ==
    cbLog' = IF callbacks.connection_cb
               THEN cbLog \o Call("connection_cb", 0, t,
                                  [state |-> state, reason_code |-> reason_code])
               ELSE cbLog

----------------------------------------------------------------------------
(* Pipeline construction: create_audio_pipeline *)

samples_per_10ms(sample_rate) == Max(sample_rate \div 100, 1)

capacity_samples(sample_rate, channels, buffer_ms) ==
    Max(Max((sample_rate * channels * Clamp(buffer_ms, 100, 5000)) \div 1000,
            samples_per_10ms(sample_rate) * channels), 1)

frame_samples(sample_rate, channels) ==
    Max((sample_rate \div 100) * channels, 1)

Zeros(n) == [i \in 1..n |-> 0]

NoFrame == [real |-> 0 - 1]

\* The AudioPipeline value create_audio_pipeline returns after a successful
\* publish, with its ring, counters and the worker's frame buffer.
NewPipeline(label, sample_rate, channels, buffer_ms) ==
    [ label            |-> label,
      sample_rate      |-> sample_rate,
      channels         |-> channels,
      capacity_samples |-> capacity_samples(sample_rate, channels, buffer_ms),
      capacity_frames  |-> Max(capacity_samples(sample_rate, channels, buffer_ms)
                                 \div Max(channels, 1), 1),
      ring             |-> << >>,
      underruns        |-> 0,
      overruns         |-> 0,
      buf              |-> Zeros(frame_samples(sample_rate, channels)),
      got              |-> 0,
      frame            |-> NoFrame,   \* last frame handed to capture_frame
      capture          |-> "none",    \* how that capture_frame call ended
      captured         |-> << >>,     \* the ring samples of all frames captured
      conn             |-> room,      \* session the track was published on
      offered          |-> << >>,     \* every sample handed to push
      enq              |-> << >> ]    \* every sample the ring accepted

\* faulty variant: the wrapped counter is not moved off 0
next_id_after_no_skip(n) == (n + 1) % IdModulus

\* next_audio_track_id: wrapping_add(1), then 0 is replaced by 1
next_id_after(n) ==
    LET m == (n + 1) % IdModulus IN IF m = 0 THEN 1 ELSE m

Insert(tracks, id, p) == (id :> p) @@ tracks
\* faulty variant: every entry goes, not only id
RemoveAll(tracks, id) == << >>

\* audio_tracks.remove(&id)
Remove(tracks, id) == [i \in DOMAIN tracks \ {id} |-> tracks[i]]

----------------------------------------------------------------------------
\* a client that has made no call yet, its id counter at n
InitAt(n) ==
    /\ room = NoRoom
    /\ role = "Both"
    /\ audio_tracks = << >>
    /\ default_audio_track_id = NoId
    /\ next_audio_track_id = n
    /\ data_stats = [reliable_sent_bytes |-> 0, reliable_dropped |-> 0,
                     lossy_sent_bytes |-> 0, lossy_dropped |-> 0]
    /\ data_labels = [reliable |-> "mocap-bin-reliable", lossy |-> "mocap-bin-lossy"]
    /\ wire = NoWire
    /\ handles = {}
    /\ lock = "free"
    /\ pushOp = NoPush
    /\ sendOp = NoSend
    /\ res = ok("lk_client_create")
    /\ nextConn = 1
    /\ nextSample = 1
    /\ abandoned = {}
    /\ work = 0
    /\ pending = {}
    /\ nextTask = 1
    /\ callbacks = [data_cb |-> FALSE, data_cb_ex |-> FALSE, connection_cb |-> FALSE,
                    audio_cb |-> FALSE,
                    user |-> [data_cb |-> 0, data_cb_ex |-> 0, connection_cb |-> 0,
                              audio_cb |-> 0]]
    /\ audio_output_format = [sample_rate |-> 48000, channels |-> 1]
    /\ events = << >>
    /\ dispatch = << >>
    /\ arrived = 0
    /\ cbLog = << >>
    /\ discarded = {}
    /\ forwards = << >>
    /\ destroyed = FALSE

\* lk_client_create
Init == InitAt(1)

----------------------------------------------------------------------------
(* Connection *)

\* lk_connect_with_role: the blocking connect under the client lock.
\* net_ok is the outcome of Room::connect.
lk_connect_with_role(r, net_ok) ==
    /\ lock = "free"
    /\ IF net_ok
         THEN /\ Spend(1)
              /\ role' = r
              /\ room' = nextConn
              /\ nextConn' = nextConn + 1
              /\ NotifyConnection("Connected")
              /\ OpenSession(nextConn)
              /\ res' = ok("lk_connect_with_role")
         ELSE /\ UNCHANGED <<role, room, nextConn, work, events, dispatch, cbLog>>
              /\ res' = err("lk_connect_with_role", 3, <<"connect failed">>)
    /\ UNCHANGED <<registryVars, pushVars, dataVars, lock, pending, nextTask,
                   callbacks, audio_output_format, arrived>>
    /\ UNCHANGED taskVars

\* lk_connect: lk_connect_with_role with LkRole::Both
lk_connect(net_ok) == lk_connect_with_role("Both", net_ok)

\* faulty variant: the registry is not cleared
lk_disconnect_keeps_tracks ==
    /\ lock = "free"
    /\ room' = NoRoom
    /\ res' = ok("lk_disconnect")
    /\ UNCHANGED <<role, nextConn, registryVars, pushVars, dataVars, lock, work>>
    /\ pending' = Overtaken(pending)
    /\ UNCHANGED <<nextTask, callbacks, audio_output_format, events, dispatch,
                   arrived, cbLog>>
    /\ UNCHANGED taskVars

\* faulty variant: the data statistics start again at every disconnect
lk_disconnect_resets_stats ==
    /\ lock = "free"
    /\ room' = NoRoom
    /\ audio_tracks' = << >>
    /\ default_audio_track_id' = NoId
    /\ data_stats' = [reliable_sent_bytes |-> 0, reliable_dropped |-> 0,
                      lossy_sent_bytes |-> 0, lossy_dropped |-> 0]
    /\ res' = ok("lk_disconnect")
    /\ UNCHANGED <<role, nextConn, next_audio_track_id, handles, pushVars,
                   data_labels, wire, sendOp, lock, work>>
    /\ pending' = Overtaken(pending)
    /\ UNCHANGED <<nextTask, callbacks, audio_output_format, events, dispatch,
                   arrived, cbLog>>
    /\ UNCHANGED taskVars

\* faulty variant: the id counter starts again at every disconnect
lk_disconnect_resets_counter ==
    /\ lock = "free"
    /\ room' = NoRoom
    /\ audio_tracks' = << >>
    /\ default_audio_track_id' = NoId
    /\ next_audio_track_id' = 1
    /\ res' = ok("lk_disconnect")
    /\ UNCHANGED <<role, nextConn, handles, pushVars, dataVars, lock, work>>
    /\ pending' = Overtaken(pending)
    /\ UNCHANGED <<nextTask, callbacks, audio_output_format, events, dispatch,
                   arrived, cbLog>>
    /\ UNCHANGED taskVars

lk_disconnect ==
    /\ lock = "free"
    /\ room' = NoRoom
    /\ audio_tracks' = << >>
    /\ default_audio_track_id' = NoId
    /\ res' = ok("lk_disconnect")
    /\ UNCHANGED <<role, nextConn, next_audio_track_id, handles, pushVars,
                   dataVars, lock, work>>
    /\ pending' = Overtaken(pending)
    /\ UNCHANGED <<nextTask, callbacks, audio_output_format, events, dispatch,
                   arrived, cbLog>>
    /\ UNCHANGED taskVars

\* lk_connect_with_role_async up to its return: the early-out, the
\* Connecting notification, the spawn of the connection attempt
lk_connect_with_role_async(r) ==
    /\ lock = "free"
    /\ Spend(1)
    /\ IF room # NoRoom
         THEN /\ res' = err("lk_connect_with_role_async", 104, <<"already connected">>)
              /\ UNCHANGED <<pending, nextTask, cbLog>>
         ELSE /\ NotifyAttempt(nextTask, "Connecting", 0)
              /\ pending' = pending \cup {[id |-> nextTask, role |-> r, stale |-> FALSE]}
              /\ nextTask' = nextTask + 1
              /\ res' = ok("lk_connect_with_role_async")
    /\ UNCHANGED <<clientVars, registryVars, pushVars, dataVars, lock, callbacks,
                   audio_output_format, events, dispatch, arrived>>
    /\ UNCHANGED taskVars

\* lk_connect_async: lk_connect_with_role_async with LkRole::Both
lk_connect_async == lk_connect_with_role_async("Both")

\* faulty variant: a failed attempt ends without telling the callback
AsyncConnectDoneSilentFailure(t, net_ok) ==
    /\ t \in pending
    /\ lock = "free"
    /\ pending' = pending \ {t}
    /\ IF net_ok
         THEN /\ role' = t.role
              /\ room' = nextConn
              /\ nextConn' = nextConn + 1
              /\ NotifyAttempt(t.id, "Connected", 0)
              /\ OpenSession(nextConn)
         ELSE /\ UNCHANGED <<clientVars, events, dispatch, cbLog>>
    /\ UNCHANGED <<registryVars, pushVars, dataVars, lock, res, work, nextTask,
                   callbacks, audio_output_format, arrived>>
    /\ UNCHANGED taskVars

\* The spawned task of lk_connect_with_role_async after Room::connect has
\* returned (net_ok is its outcome): it takes the lock, stores the room and
\* notifies, then spawns the event loop.
AsyncConnectDone(t, net_ok) ==
    /\ t \in pending
    /\ lock = "free"
    /\ pending' = pending \ {t}
    /\ IF net_ok
         THEN /\ role' = t.role
              /\ room' = nextConn
              /\ nextConn' = nextConn + 1
              /\ NotifyAttempt(t.id, "Connected", 0)
              /\ OpenSession(nextConn)
         ELSE /\ NotifyAttempt(t.id, "Failed", 1)
              /\ UNCHANGED <<clientVars, events, dispatch>>
    /\ UNCHANGED <<registryVars, pushVars, dataVars, lock, res, work, nextTask,
                   callbacks, audio_output_format, arrived>>
    /\ UNCHANGED taskVars

\* lk_client_destroy: drop(Box::from_raw(client)) gives up the caller's
\* reference to the shared state and returns nothing. The ClientState (its
\* room, its registry, its callback slots) is dropped with the last Arc;
\* the event loop, the forwarding tasks, a connection attempt in flight
\* and every track handle hold one each, and no task is told to stop.
\* With none of them left the state dropped holds no room and no pipeline.
lk_client_destroy ==
    /\ ~destroyed
    /\ destroyed' = TRUE
    /\ UNCHANGED <<clientVars, registryVars, pushVars, dataVars, lock, res, work,
                   inboundVars, discarded, forwards>>

\* lk_client_is_ready: the value returned is the result's code
lk_client_is_ready ==
    /\ lock = "free"
    /\ res' = [op |-> "lk_client_is_ready",
               code |-> IF room # NoRoom THEN 1 ELSE 0, msg |-> << >>]
    /\ UNCHANGED <<clientVars, registryVars, pushVars, dataVars, lock, work,
                   inboundVars>>
    /\ UNCHANGED taskVars

\* lk_refresh_token: takes no lock, touches nothing
lk_refresh_token ==
    /\ res' = err("lk_refresh_token", 501,
                  <<"Token refresh not supported; use disconnect + reconnect">>)
    /\ UNCHANGED <<clientVars, registryVars, pushVars, dataVars, lock, work,
                   inboundVars>>
    /\ UNCHANGED taskVars

\* faulty variant: the role is stored before the call is refused
lk_set_role_applies(r) ==
    /\ res' = err("lk_set_role", 501,
                  <<"Dynamic role switching not supported; use disconnect + reconnect with new role">>)
    /\ role' = r
    /\ UNCHANGED <<room, nextConn, registryVars, pushVars, dataVars, lock, work,
                   inboundVars>>
    /\ UNCHANGED taskVars

\* lk_set_role: takes no lock, touches nothing
lk_set_role(r) ==
    /\ res' = err("lk_set_role", 501,
                  <<"Dynamic role switching not supported; use disconnect + reconnect with new role">>)
    /\ UNCHANGED <<clientVars, registryVars, pushVars, dataVars, lock, work,
                   inboundVars>>
    /\ UNCHANGED taskVars

\* lk_client_set_data_callback, lk_client_set_data_callback_ex,
\* lk_set_connection_callback: slot is the field, set whether cb is Some.
\* The pair stored is named 1 or 2, whichever the slot does not hold (the
\* caller registers something else than what is there); None is 0.
set_callback(op, slot, set) ==
    /\ lock = "free"
    /\ Spend(1)
    /\ callbacks' = [callbacks EXCEPT ![slot] = set,
                                      !.user[slot] = IF ~set THEN 0
                                                     ELSE IF @ = 1 THEN 2 ELSE 1]
    /\ res' = ok(op)
    /\ UNCHANGED <<clientVars, registryVars, pushVars, dataVars, lock,
                   pending, nextTask, audio_output_format, events, dispatch,
                   arrived, cbLog>>
    /\ UNCHANGED taskVars

lk_client_set_data_callback(set) ==
    set_callback("lk_client_set_data_callback", "data_cb", set)

lk_client_set_data_callback_ex(set) ==
    set_callback("lk_client_set_data_callback_ex", "data_cb_ex", set)

lk_set_connection_callback(set) ==
    set_callback("lk_set_connection_callback", "connection_cb", set)

----------------------------------------------------------------------------
(* Event loop: the task spawned by a successful connect. It drains the    *)
(* session's unbounded receiver, one `match ev` per iteration.            *)

EventTags ==
    {"ByteStreamOpened", "Disconnected", "ConnectionStateChanged", "Other"}

\* whether reader.take() still finds the reader of a ByteStreamOpened
Readers == {"present", "taken"}

\* the event loop's loop variable after an event is done with
Done(e) == [busy |-> FALSE, done |-> e.seq]

\* The room of the current session emits an event: it is appended to the
\* session's channel. The payload of a byte stream is named by the
\* event's arrival number.
Inbound(tag, reader) ==
    /\ room # NoRoom
    /\ Spend(1)
    /\ arrived' = arrived + 1
    /\ events' = [events EXCEPT ![room] =
                    Append(@, [seq |-> arrived + 1, tag |-> tag,
                               reader |-> IF tag = "ByteStreamOpened"
                                            THEN reader ELSE "none",
                               topic |-> IF tag = "ByteStreamOpened"
                                           THEN data_labels.reliable ELSE "none"])]
    /\ UNCHANGED <<clientVars, registryVars, pushVars, dataVars, lock, res,
                   pending, nextTask, callbacks, audio_output_format,
                   dispatch, cbLog>>
    /\ UNCHANGED taskVars

\* faulty variant: the newest event of the channel is received first
DispatchRecvNewest(s) ==
    /\ ~dispatch[s].busy
    /\ events[s] # << >>
    /\ LET ev == events[s][Len(events[s])]
       IN /\ events' = [events EXCEPT ![s] = SubSeq(@, 1, Len(@) - 1)]
          /\ dispatch' = [dispatch EXCEPT ![s] =
               IF ev.tag = "Other" \/ ev.reader = "taken" THEN Done(ev)
               ELSE [busy |-> TRUE, ev |-> ev,
                     stage |-> IF ev.tag = "ByteStreamOpened"
                                 THEN "reading" ELSE "locking"]]
    /\ UNCHANGED <<clientVars, registryVars, pushVars, dataVars, lock, res,
                   work, pending, nextTask, callbacks, audio_output_format,
                   arrived, cbLog>>
    /\ UNCHANGED taskVars

\* events.recv().await returned Some(ev), and the match arm up to its
\* first await or lock: the catch-all arm and a ByteStreamOpened whose
\* reader is gone (`continue`) end the iteration at once.
DispatchRecv(s) ==
    /\ ~dispatch[s].busy
    /\ events[s] # << >>
    /\ LET ev == Head(events[s])
       IN /\ events' = [events EXCEPT ![s] = Tail(@)]
          /\ dispatch' = [dispatch EXCEPT ![s] =
               IF ev.tag = "Other" \/ ev.reader = "taken" THEN Done(ev)
               ELSE [busy |-> TRUE, ev |-> ev,
                     stage |-> IF ev.tag = "ByteStreamOpened"
                                 THEN "reading" ELSE "locking"]]
    /\ UNCHANGED <<clientVars, registryVars, pushVars, dataVars, lock, res,
                   work, pending, nextTask, callbacks, audio_output_format,
                   arrived, cbLog>>
    /\ UNCHANGED taskVars

\* reader.read_all().await returned; read_ok is whether it returned Ok.
\* A failed read ends the iteration.
DispatchRead(s, read_ok) ==
    /\ dispatch[s].busy
    /\ dispatch[s].stage = "reading"
    /\ dispatch' = [dispatch EXCEPT ![s] =
                      IF read_ok THEN [@ EXCEPT !.stage = "locking"]
                      ELSE Done(@.ev)]
    /\ UNCHANGED <<clientVars, registryVars, pushVars, dataVars, lock, res,
                   work, pending, nextTask, callbacks, audio_output_format,
                   events, arrived, cbLog>>
    /\ UNCHANGED taskVars

\* the callback slot an event's arm looks at
SlotOf(ev) == IF ev.tag = "ByteStreamOpened" THEN "data_cb" ELSE "connection_cb"

\* the arguments the arm passes: the payload of a byte stream, the state
\* of a connection event
ArgOf(ev) ==
    IF ev.tag = "ByteStreamOpened" THEN ev.seq
    ELSE IF ev.tag = "Disconnected" THEN "Disconnected"
    ELSE "ConnectionStateChanged"

\* client_arc.lock() returned the guard (the task waits while another
\* thread holds the lock): the callback of the arm, if one is registered,
\* is entered with the lock held; with none registered the guard is
\* dropped and the iteration ends.
DispatchCall(s) ==
    /\ dispatch[s].busy
    /\ dispatch[s].stage = "locking"
    /\ lock = "free"
    /\ LET ev == dispatch[s].ev
       IN IF callbacks[SlotOf(ev)]
            THEN /\ cbLog' = Append(cbLog, Call(SlotOf(ev), s, ev.seq, ArgOf(ev))[1])
                 /\ dispatch' = [dispatch EXCEPT ![s].stage = "calling"]
                 /\ lock' = "callback"
            ELSE /\ dispatch' = [dispatch EXCEPT ![s] = Done(ev)]
                 /\ UNCHANGED <<lock, cbLog>>
    /\ UNCHANGED <<clientVars, registryVars, pushVars, dataVars, res, work,
                   pending, nextTask, callbacks, audio_output_format, events,
                   arrived>>
    /\ UNCHANGED taskVars

\* the foreign callback returned: the guard is dropped and the iteration
\* ends
CallbackReturn(s) ==
    /\ dispatch[s].busy
    /\ dispatch[s].stage = "calling"
    /\ LET ev == dispatch[s].ev
       IN /\ cbLog' = Append(cbLog, Call(SlotOf(ev), s, ev.seq, ArgOf(ev))[2])
          /\ dispatch' = [dispatch EXCEPT ![s] = Done(ev)]
    /\ lock' = "free"
    /\ UNCHANGED <<clientVars, registryVars, pushVars, dataVars, res, work,
                   pending, nextTask, callbacks, audio_output_format, events,
                   arrived>>
    /\ UNCHANGED taskVars

----------------------------------------------------------------------------
(* Remote audio: the forwarding task the event loop spawns for every      *)
(* subscribed remote audio track. Its JoinHandle is dropped at the spawn,  *)
(* so nothing refers to the task afterwards.                               *)

lk_client_set_audio_callback(set) ==
    set_callback("lk_client_set_audio_callback", "audio_cb", set)

\* RoomEvent::TrackSubscribed with an audio track, handled by the event
\* loop of the open session s: the output format is read under the client
\* lock and the forwarding task is spawned
TrackSubscribed(s) ==
    /\ s \in DOMAIN dispatch
    /\ room = s
    /\ ~dispatch[s].busy
    /\ lock = "free"
    /\ Spend(1)
    /\ forwards' = Append(forwards,
                          [session |-> s,
                           sample_rate |-> audio_output_format.sample_rate,
                           channels |-> audio_output_format.channels,
                           running |-> TRUE,
                           frames |-> 0])
    /\ UNCHANGED <<clientVars, registryVars, pushVars, dataVars, lock, res,
                   inboundVars, discarded, destroyed>>

\* stream.next() gave task t a frame: the client lock is taken and, with it
\* held, the audio callback (if one is registered) is called
ForwardFrame(t) ==
    /\ t \in DOMAIN forwards
    /\ forwards[t].running
    /\ lock = "free"
    /\ Spend(1)
    /\ forwards' = [forwards EXCEPT ![t].frames = @ + 1]
    /\ cbLog' = IF callbacks.audio_cb
                  THEN cbLog \o Call("audio_cb", forwards[t].session,
                                     forwards[t].frames + 1, t)
                  ELSE cbLog
    /\ UNCHANGED <<clientVars, registryVars, pushVars, dataVars, lock, res,
                   pending, nextTask, callbacks, audio_output_format, events,
                   dispatch, arrived, discarded, destroyed>>

\* stream.next() gave task t None: the while loop and the task end. When
\* the stream of a remote track ends is up to the library.
StreamEnded(t) ==
    /\ t \in DOMAIN forwards
    /\ forwards[t].running
    /\ forwards' = [forwards EXCEPT ![t].running = FALSE]
    /\ UNCHANGED <<clientVars, registryVars, pushVars, dataVars, lock, res,
                   work, inboundVars, discarded, destroyed>>

----------------------------------------------------------------------------
(* Foreign entry points: the pointer checks in front of the operations *)

\* a pointer argument as the entry point sees it
Ptrs == {"null", "valid"}

\* everything but the result of the last call
ClientState ==
    <<clientVars, registryVars, pushVars, dataVars, lock, work, inboundVars>>

\* return err(code, msg) before the client is dereferenced
Reject(op, code, msg) ==
    /\ res' = err(op, code, <<msg>>)
    /\ UNCHANGED ClientState
    /\ UNCHANGED taskVars

\* faulty variant: the format is stored before it is validated
lk_set_audio_output_format_stores_first(client, sample_rate, channels) ==
    IF client = "null"
      THEN Reject("lk_set_audio_output_format", 1, "client null")
      ELSE /\ lock = "free"
           /\ audio_output_format' = [sample_rate |-> sample_rate,
                                      channels |-> channels]
           /\ res' = IF sample_rate <= 0 \/ channels <= 0
                       THEN err("lk_set_audio_output_format", 5,
                                <<"invalid audio output format">>)
                       ELSE ok("lk_set_audio_output_format")
           /\ UNCHANGED <<clientVars, registryVars, pushVars, dataVars, lock,
                          work, pending, nextTask, callbacks, events, dispatch,
                          arrived, cbLog>>
           /\ UNCHANGED taskVars

lk_set_audio_output_format(client, sample_rate, channels) ==
    IF client = "null"
      THEN Reject("lk_set_audio_output_format", 1, "client null")
    ELSE IF sample_rate <= 0 \/ channels <= 0
      THEN Reject("lk_set_audio_output_format", 5, "invalid audio output format")
    ELSE /\ lock = "free"
         /\ audio_output_format' = [sample_rate |-> sample_rate,
                                    channels |-> channels]
         /\ res' = ok("lk_set_audio_output_format")
         /\ UNCHANGED <<clientVars, registryVars, pushVars, dataVars, lock,
                        work, pending, nextTask, callbacks, events, dispatch,
                        arrived, cbLog>>
         /\ UNCHANGED taskVars

----------------------------------------------------------------------------
(* Registry *)

\* faulty variant: the connection is not looked at
create_audio_pipeline_offline(label, sample_rate, channels, buffer_ms, publish_ok) ==
    IF sample_rate = 0 \/ channels = 0
      THEN [okay |-> FALSE, error |-> "invalid audio parameters", built |-> {}]
    ELSE IF ~publish_ok
      THEN [okay |-> FALSE, error |-> "publish failed",
            built |-> {"src", "local_track"}]
    ELSE [okay |-> TRUE, error |-> "",
          built |-> {"src", "local_track", "ring", "worker"},
          pipeline |-> NewPipeline(label, sample_rate, channels, buffer_ms)]

\* faulty variant: the ring and the worker are made before the publish
\* round-trip, so a failed publish has built them too
create_audio_pipeline_spawns_first(label, sample_rate, channels, buffer_ms, publish_ok) ==
    IF sample_rate = 0 \/ channels = 0
      THEN [okay |-> FALSE, error |-> "invalid audio parameters", built |-> {}]
    ELSE IF room = NoRoom
      THEN [okay |-> FALSE, error |-> "not connected",
            built |-> {"src", "local_track"}]
    ELSE IF ~publish_ok
      THEN [okay |-> FALSE, error |-> "publish failed",
            built |-> {"src", "local_track", "ring", "worker"}]
    ELSE [okay |-> TRUE, error |-> "",
          built |-> {"src", "local_track", "ring", "worker"},
          pipeline |-> NewPipeline(label, sample_rate, channels, buffer_ms)]

\* create_audio_pipeline: parameter check, the audio source and the local
\* track, connection check, publish round-trip (publish_ok is its outcome),
\* then ring and worker. built names what the call has constructed by the
\* time it returns; on an error return all of it is dropped.
create_audio_pipeline(label, sample_rate, channels, buffer_ms, publish_ok) ==
    IF sample_rate = 0 \/ channels = 0
      THEN [okay |-> FALSE, error |-> "invalid audio parameters", built |-> {}]
    ELSE IF room = NoRoom
      THEN [okay |-> FALSE, error |-> "not connected",
            built |-> {"src", "local_track"}]
    ELSE IF ~publish_ok
      THEN [okay |-> FALSE, error |-> "publish failed",
            built |-> {"src", "local_track"}]
    ELSE [okay |-> TRUE, error |-> "",
          built |-> {"src", "local_track", "ring", "worker"},
          pipeline |-> NewPipeline(label, sample_rate, channels, buffer_ms)]

\* register_audio_pipeline: the id is taken from the counter before the
\* pipeline is built; the map is touched only on success.
register_audio_pipeline(label, sample_rate, channels, buffer_ms, publish_ok) ==
    LET id == next_audio_track_id
        c == create_audio_pipeline(label, sample_rate, channels, buffer_ms,
                                   publish_ok)
    IN [ okay   |-> c.okay,
         error  |-> c.error,
         built  |-> c.built,
         id     |-> id,
         next   |-> next_id_after(id),
         tracks |-> IF c.okay THEN Insert(audio_tracks, id, c.pipeline)
                              ELSE audio_tracks ]

\* faulty variant: only the sample rate is compared
FormatMismatchRateOnly(p, sample_rate, channels) ==
    p.sample_rate # sample_rate

\* pipeline.sample_rate != sample_rate || pipeline.channels != channels
FormatMismatch(p, sample_rate, channels) ==
    p.sample_rate # sample_rate \/ p.channels # channels

\* faulty variant: the existing default is not looked up: every call registers
ensure_default_always_registers(sample_rate, channels, publish_ok) ==
    LET r == register_audio_pipeline("ue-audio", sample_rate, channels,
                                     DEFAULT_BUFFER_MS, publish_ok)
    IN [ okay |-> r.okay, error |-> r.error, id |-> r.id, next |-> r.next,
         tracks |-> r.tracks, built |-> r.built,
         default |-> IF r.okay THEN r.id ELSE NoId,
         registered |-> TRUE ]

\* faulty variant: the default reference is set before the registration
\* is known to have succeeded
ensure_default_sets_early(sample_rate, channels, publish_ok) ==
    LET d == default_audio_track_id
        live == d # NoId /\ d \in DOMAIN audio_tracks
    IN IF live /\ FormatMismatch(audio_tracks[d], sample_rate, channels)
         THEN [ okay |-> FALSE, error |-> "default audio track already configured",
                id |-> NoId, next |-> next_audio_track_id,
                tracks |-> audio_tracks, default |-> d, built |-> {},
                registered |-> FALSE ]
       ELSE IF live
         THEN [ okay |-> TRUE, error |-> "",
                id |-> d, next |-> next_audio_track_id,
                tracks |-> audio_tracks, default |-> d, built |-> {},
                registered |-> FALSE ]
       ELSE LET r == register_audio_pipeline("ue-audio", sample_rate, channels,
                                             DEFAULT_BUFFER_MS, publish_ok)
            IN [ okay |-> r.okay, error |-> r.error,
                 id |-> r.id, next |-> r.next,
                 tracks |-> r.tracks, built |-> r.built,
                 default |-> r.id,
                 registered |-> TRUE ]

\* ensure_default_audio_track: outcome in the current state.
ensure_default_audio_track(sample_rate, channels, publish_ok) ==
    LET d == default_audio_track_id
        live == d # NoId /\ d \in DOMAIN audio_tracks
    IN IF live /\ FormatMismatch(audio_tracks[d], sample_rate, channels)
         THEN [ okay |-> FALSE, error |-> "default audio track already configured",
                id |-> NoId, next |-> next_audio_track_id,
                tracks |-> audio_tracks, default |-> d, built |-> {},
                registered |-> FALSE ]
       ELSE IF live
         THEN [ okay |-> TRUE, error |-> "",
                id |-> d, next |-> next_audio_track_id,
                tracks |-> audio_tracks, default |-> d, built |-> {},
                registered |-> FALSE ]
       ELSE LET r == register_audio_pipeline("ue-audio", sample_rate, channels,
                                             DEFAULT_BUFFER_MS, publish_ok)
            IN [ okay |-> r.okay, error |-> r.error,
                 id |-> r.id, next |-> r.next,
                 tracks |-> r.tracks, built |-> r.built,
                 default |-> IF r.okay THEN r.id ELSE NoId,
                 registered |-> TRUE ]

----------------------------------------------------------------------------
(* Producer side: AudioPipeline::push, one ring slot per step *)

FreshSamples(n) == [i \in 1..n |-> nextSample + i - 1]

\* Entry of AudioPipeline::push on pipeline id of tracks with a slice of
\* total samples: the divisibility check, then the loop starts.
BeginPush(op, tracks, id, total) ==
    IF total % tracks[id].channels # 0
      THEN /\ res' = err(op, 8, <<"audio ring push failed",
                                  "pcm payload len is not divisible by channel count">>)
           /\ audio_tracks' = tracks
           /\ UNCHANGED <<pushVars, lock>>
      ELSE /\ pushOp' = [active |-> TRUE, op |-> op, track_id |-> id,
                         data |-> FreshSamples(total), pushed |-> 0]
           /\ audio_tracks' = [tracks EXCEPT
                                 ![id].offered = @ \o FreshSamples(total)]
           /\ nextSample' = nextSample + total
           /\ lock' = "push"
           /\ UNCHANGED <<abandoned, res>>

RingFull(p) == Len(p.ring) >= p.capacity_samples

\* ring.prod.push(data[pushed]) returned Ok
PushSample ==
    /\ lock = "push"
    /\ pushOp.pushed < Len(pushOp.data)
    /\ LET id == pushOp.track_id
           p == audio_tracks[id]
           s == pushOp.data[pushOp.pushed + 1]
       IN /\ ~RingFull(p)
          /\ audio_tracks' = [audio_tracks EXCEPT
                                ![id].ring = Append(p.ring, s),
                                ![id].enq = Append(p.enq, s)]
          /\ pushOp' = [pushOp EXCEPT !.pushed = @ + 1]
    /\ UNCHANGED <<clientVars, default_audio_track_id, next_audio_track_id,
                   handles, nextSample, abandoned, dataVars, lock, res, work>>
    /\ UNCHANGED inboundVars
    /\ UNCHANGED taskVars

\* ring.prod.push returned Err: dropped = true, break, one overrun, Ok(())
PushOverflow ==
    /\ lock = "push"
    /\ pushOp.pushed < Len(pushOp.data)
    /\ LET id == pushOp.track_id
           p == audio_tracks[id]
       IN /\ RingFull(p)
          /\ audio_tracks' = [audio_tracks EXCEPT ![id].overruns = @ + 1]
          /\ abandoned' = abandoned \cup
                { pushOp.data[i] : i \in (pushOp.pushed + 1)..Len(pushOp.data) }
    /\ pushOp' = NoPush
    /\ lock' = "free"
    /\ res' = ok(pushOp.op)
    /\ UNCHANGED <<clientVars, default_audio_track_id, next_audio_track_id,
                   handles, nextSample, dataVars, work>>
    /\ UNCHANGED inboundVars
    /\ UNCHANGED taskVars

\* faulty variant: the overrun is counted without looking at dropped
PushDoneCountsOverrun ==
    /\ lock = "push"
    /\ pushOp.pushed = Len(pushOp.data)
    /\ audio_tracks' = [audio_tracks EXCEPT ![pushOp.track_id].overruns = @ + 1]
    /\ pushOp' = NoPush
    /\ lock' = "free"
    /\ res' = ok(pushOp.op)
    /\ UNCHANGED <<clientVars, default_audio_track_id, next_audio_track_id,
                   handles, nextSample, abandoned, dataVars, work>>
    /\ UNCHANGED inboundVars
    /\ UNCHANGED taskVars

\* the loop ran to the end of the slice: Ok(())
PushDone ==
    /\ lock = "push"
    /\ pushOp.pushed = Len(pushOp.data)
    /\ pushOp' = NoPush
    /\ lock' = "free"
    /\ res' = ok(pushOp.op)
    /\ UNCHANGED <<clientVars, registryVars, nextSample, abandoned, dataVars,
                   work>>
    /\ UNCHANGED inboundVars
    /\ UNCHANGED taskVars

\* lk_publish_audio_pcm_i16 up to the entry of push
lk_publish_audio_pcm_i16(sample_rate, channels, frames_per_channel, publish_ok) ==
    /\ lock = "free" \/ channels <= 0 \/ sample_rate <= 0
    /\ IF channels <= 0 \/ sample_rate <= 0
         THEN /\ res' = err("lk_publish_audio_pcm_i16", 5, <<"bad params">>)
              /\ discarded' = {}
              /\ UNCHANGED <<registryVars, pushVars, lock, work>>
       ELSE IF room = NoRoom
         THEN /\ res' = err("lk_publish_audio_pcm_i16", 6, <<"not connected">>)
              /\ discarded' = {}
              /\ UNCHANGED <<registryVars, pushVars, lock, work>>
       ELSE LET e == ensure_default_audio_track(sample_rate, channels, publish_ok)
                pushing == e.okay /\ e.id \in DOMAIN e.tracks
            IN /\ Spend((IF e.registered THEN 1 ELSE 0)
                        + (IF pushing THEN frames_per_channel * channels ELSE 0))
               /\ default_audio_track_id' = e.default
               /\ next_audio_track_id' = e.next
               /\ discarded' = IF e.okay THEN {} ELSE e.built
               /\ UNCHANGED handles
               /\ IF ~e.okay
                    THEN /\ res' = err("lk_publish_audio_pcm_i16", 7,
                                       <<"audio pipeline init failed", e.error>>)
                         /\ audio_tracks' = e.tracks
                         /\ UNCHANGED <<pushVars, lock>>
                  ELSE IF e.id \notin DOMAIN e.tracks
                    THEN /\ res' = err("lk_publish_audio_pcm_i16", 8,
                                       <<"audio pipeline disappeared">>)
                         /\ audio_tracks' = e.tracks
                         /\ UNCHANGED <<pushVars, lock>>
                  ELSE BeginPush("lk_publish_audio_pcm_i16", e.tracks, e.id,
                                 frames_per_channel * channels)
    /\ UNCHANGED <<clientVars, dataVars, forwards, destroyed>>
    /\ UNCHANGED inboundVars

\* lk_audio_track_publish_pcm_i16 up to the entry of push
lk_audio_track_publish_pcm_i16(h, frames_per_channel) ==
    /\ lock = "free"
    /\ h \in handles
    /\ IF h \notin DOMAIN audio_tracks
         THEN /\ res' = err("lk_audio_track_publish_pcm_i16", 6,
                            <<"audio track not found">>)
              /\ UNCHANGED <<audio_tracks, pushVars, lock, work>>
         ELSE /\ Spend(frames_per_channel * audio_tracks[h].channels)
              /\ BeginPush("lk_audio_track_publish_pcm_i16", audio_tracks, h,
                           frames_per_channel * audio_tracks[h].channels)
    /\ UNCHANGED <<clientVars, default_audio_track_id, next_audio_track_id,
                   handles, dataVars>>
    /\ UNCHANGED inboundVars
    /\ UNCHANGED taskVars

lk_audio_track_create(cfg, label, publish_ok) ==
    /\ lock = "free" \/ cfg.sample_rate <= 0 \/ cfg.channels <= 0
    /\ IF cfg.sample_rate <= 0 \/ cfg.channels <= 0
         THEN /\ res' = err("lk_audio_track_create", 5,
                            <<"invalid audio track parameters">>)
              /\ discarded' = {}
              /\ UNCHANGED <<registryVars, work>>
         ELSE LET buffer_ms == IF cfg.buffer_ms <= 0 THEN DEFAULT_BUFFER_MS
                                                     ELSE cfg.buffer_ms
                  r == register_audio_pipeline(label, cfg.sample_rate,
                                               cfg.channels, buffer_ms, publish_ok)
              IN /\ Spend(1)
                 /\ next_audio_track_id' = r.next
                 /\ audio_tracks' = r.tracks
                 /\ discarded' = IF r.okay THEN {} ELSE r.built
                 /\ UNCHANGED default_audio_track_id
                 /\ IF r.okay
                      THEN /\ handles' = handles \cup {r.id}
                           /\ res' = ok("lk_audio_track_create")
                      ELSE /\ UNCHANGED handles
                           /\ res' = err("lk_audio_track_create", 7,
                                         <<"audio track create failed", r.error>>)
    /\ UNCHANGED <<clientVars, pushVars, dataVars, lock, forwards, destroyed>>
    /\ UNCHANGED inboundVars

\* lk_publish_audio_pcm_i16 from its entry: the pointer checks, then the
\* parameter check and the push
lk_publish_audio_pcm_i16_entry(client, pcm, sample_rate, channels, frames_per_channel, publish_ok) ==
    IF client = "null"
      THEN Reject("lk_publish_audio_pcm_i16", 1, "client null")
    ELSE IF pcm = "null"
      THEN Reject("lk_publish_audio_pcm_i16", 4, "pcm null")
    ELSE lk_publish_audio_pcm_i16(sample_rate, channels, frames_per_channel,
                                  publish_ok)

\* lk_audio_track_create from its entry: the pointer checks, then the
\* parameter check and the registration
lk_audio_track_create_entry(client, config, out_track, cfg, label, publish_ok) ==
    IF client = "null"
      THEN Reject("lk_audio_track_create", 1, "client null")
    ELSE IF config = "null"
      THEN Reject("lk_audio_track_create", 5, "config null")
    ELSE IF out_track = "null"
      THEN Reject("lk_audio_track_create", 5, "out_track null")
    ELSE lk_audio_track_create(cfg, label, publish_ok)

lk_audio_track_destroy(h) ==
    /\ lock = "free"
    /\ h \in handles
    /\ handles' = handles \ {h}
    /\ audio_tracks' = Remove(audio_tracks, h)
    /\ default_audio_track_id' =
          IF default_audio_track_id = h THEN NoId ELSE default_audio_track_id
    /\ res' = ok("lk_audio_track_destroy")
    /\ UNCHANGED <<clientVars, next_audio_track_id, pushVars, dataVars, lock,
                   work>>
    /\ UNCHANGED inboundVars
    /\ UNCHANGED taskVars

----------------------------------------------------------------------------
(* Consumer side: the pacing worker of one pipeline. buf and got are the  *)
(* worker's locals; got = 0 between ticks.                                 *)

AudioFrame(p, data, real) ==
    [ data |-> data,
      sample_rate |-> p.sample_rate,
      num_channels |-> p.channels,
      samples_per_channel |-> Len(data) \div Max(p.channels, 1),
      real |-> real ]   \* how many leading samples came from the ring

\* faulty variant: the tail of the reused buffer is not zeroed
ZeroFromKeepsStale(buf, got) == buf

\* for x in &mut buf[got..] { *x = 0 }
ZeroFrom(buf, got) == [i \in 1..Len(buf) |-> IF i > got THEN 0 ELSE buf[i]]

\* faulty variant: the popped sample always lands in the first slot
StoreSampleFirst(buf, got, s) == [buf EXCEPT ![1] = s]

\* buf[got] = s (got counts from 0 in the source)
StoreSample(buf, got, s) == [buf EXCEPT ![got + 1] = s]

\* faulty variant: the worker leaves its loop when the source refuses a
\* frame (got stays at the end of buf, so no tick follows)
capture_frame_or_stop(p, buf, real, capture_ok) ==
    [p EXCEPT !.buf = buf,
              !.got = IF capture_ok THEN 0 ELSE Len(buf),
              !.frame = AudioFrame(p, buf, real),
              !.captured = p.captured \o SubSeq(buf, 1, real),
              !.capture = IF capture_ok THEN "ok" ELSE "err"]

\* let _ = src_clone.capture_frame(&frame).await: buf is handed over with
\* its first real samples taken from the ring, the outcome is dropped and
\* the loop goes back to tick.tick() with got = 0
capture_frame(p, buf, real, capture_ok) ==
    [p EXCEPT !.buf = buf,
              !.got = 0,
              !.frame = AudioFrame(p, buf, real),
              !.captured = p.captured \o SubSeq(buf, 1, real),
              !.capture = IF capture_ok THEN "ok" ELSE "err"]

\* faulty variant: the worker takes the client lock around its pop
WorkerPopUnderLock(id, capture_ok) ==
    /\ lock = "free"
    /\ id \in DOMAIN audio_tracks
    /\ LET p == audio_tracks[id]
           got == p.got + 1
       IN /\ p.ring # << >>
          /\ p.got < Len(p.buf)
          /\ got = Len(p.buf) \/ capture_ok
          /\ LET buf == StoreSample(p.buf, p.got, Head(p.ring))
                 q == [p EXCEPT !.ring = Tail(p.ring)]
             IN audio_tracks' = [audio_tracks EXCEPT ![id] =
                   IF got = Len(buf)
                     THEN capture_frame(q, buf, got, capture_ok)
                     ELSE [q EXCEPT !.buf = buf, !.got = got]]
    /\ UNCHANGED <<clientVars, default_audio_track_id, next_audio_track_id,
                   handles, pushVars, dataVars, lock, res, work>>
    /\ UNCHANGED inboundVars
    /\ UNCHANGED taskVars

\* cons.pop() returned Ok(s); the frame is captured once buf is full
\* (capture_ok is the outcome of that capture_frame call)
WorkerPop(id, capture_ok) ==
    /\ id \in DOMAIN audio_tracks
    /\ LET p == audio_tracks[id]
           got == p.got + 1
       IN /\ p.ring # << >>
          /\ p.got < Len(p.buf)
          /\ got = Len(p.buf) \/ capture_ok    \* no capture, no outcome
          /\ LET buf == StoreSample(p.buf, p.got, Head(p.ring))
                 q == [p EXCEPT !.ring = Tail(p.ring)]
             IN audio_tracks' = [audio_tracks EXCEPT ![id] =
                   IF got = Len(buf)
                     THEN capture_frame(q, buf, got, capture_ok)
                     ELSE [q EXCEPT !.buf = buf, !.got = got]]
    /\ UNCHANGED <<clientVars, default_audio_track_id, next_audio_track_id,
                   handles, pushVars, dataVars, lock, res, work>>
    /\ UNCHANGED inboundVars
    /\ UNCHANGED taskVars

\* cons.pop() returned Err with got < buf.len(): one underrun, the tail of
\* buf zeroed, the frame captured
WorkerUnderrun(id, capture_ok) ==
    /\ id \in DOMAIN audio_tracks
    /\ LET p == audio_tracks[id]
       IN /\ p.ring = << >>
          /\ p.got < Len(p.buf)
          /\ IF p.got > 0 THEN UNCHANGED work ELSE Spend(1)
          /\ LET buf == ZeroFrom(p.buf, p.got)
                 q == [p EXCEPT !.underruns = @ + 1]
             IN audio_tracks' = [audio_tracks EXCEPT ![id] =
                   capture_frame(q, buf, p.got, capture_ok)]
    /\ UNCHANGED <<clientVars, default_audio_track_id, next_audio_track_id,
                   handles, pushVars, dataVars, lock, res>>
    /\ UNCHANGED inboundVars
    /\ UNCHANGED taskVars

----------------------------------------------------------------------------
(* Data sender: lk_send_data_ex. The client lock is taken on entry and    *)
(* held until the function returns.                                        *)

\* faulty variant: no fallback: the requested tier is kept
EffectiveRelNoFallback(reliability, len) == reliability

\* the tier the payload goes out on (lossy falls back to reliable above
\* LOSSY_MAX)
EffectiveRel(reliability, len) ==
    IF reliability = "Lossy" /\ len > LOSSY_MAX THEN "Reliable" ELSE reliability

\* faulty variant: the reliable limit itself is rejected
SizeErrorInclusive(effective_rel, len) ==
    IF effective_rel = "Lossy" /\ len > LOSSY_MAX THEN 201
    ELSE IF effective_rel = "Reliable" /\ len >= RELIABLE_MAX THEN 202
    ELSE 0

\* the size check on the effective tier: 0 when the payload passes
SizeError(effective_rel, len) ==
    IF effective_rel = "Lossy" /\ len > LOSSY_MAX THEN 201
    ELSE IF effective_rel = "Reliable" /\ len > RELIABLE_MAX THEN 202
    ELSE 0

\* faulty variant: an unlabeled payload always takes the lossy default
TopicLossyDefault(effective_rel, label) ==
    IF label # NullLabel
      THEN IF cstr(label).okay THEN cstr(label).s ELSE "custom"
    ELSE data_labels.lossy

\* the topic: cstr(label).unwrap_or("custom") for a label that is not
\* null, else the default label of the effective tier
Topic(effective_rel, label) ==
    IF label # NullLabel
      THEN IF cstr(label).okay THEN cstr(label).s ELSE "custom"
    ELSE IF effective_rel = "Reliable" THEN data_labels.reliable
    ELSE data_labels.lossy

\* match res { Ok => sent bytes of the tier += len }
StatsSent(stats, effective_rel, len) ==
    IF effective_rel = "Reliable"
      THEN [stats EXCEPT !.reliable_sent_bytes = @ + len]
      ELSE [stats EXCEPT !.lossy_sent_bytes = @ + len]

\* faulty variant: a drop is counted on both tiers
StatsDroppedBoth(stats, effective_rel) ==
    [stats EXCEPT !.reliable_dropped = @ + 1, !.lossy_dropped = @ + 1]

\* match res { Err => drop counter of the tier += 1 }
StatsDropped(stats, effective_rel) ==
    IF effective_rel = "Reliable"
      THEN [stats EXCEPT !.reliable_dropped = @ + 1]
      ELSE [stats EXCEPT !.lossy_dropped = @ + 1]

\* faulty variant: the guard is given up for the 100 ms backoff
lk_send_data_ex_unlocks_backoff(len, reliability, label, first_ok) ==
    /\ lock = "free"
    /\ Spend(1)
    /\ LET effective_rel == EffectiveRel(reliability, len)
           size_error == SizeError(effective_rel, len)
           topic == Topic(effective_rel, label)
           attempt == [attempts |-> 1, reliability |-> reliability,
                       tier |-> effective_rel, topic |-> topic, len |-> len]
       IN IF room = NoRoom
            THEN /\ res' = err("lk_send_data_ex", 6, <<"not connected">>)
                 /\ UNCHANGED <<data_stats, wire, sendOp, lock>>
          ELSE IF size_error # 0
            THEN /\ res' = err("lk_send_data_ex", size_error,
                               <<"data size exceeds limit">>)
                 /\ UNCHANGED <<data_stats, wire, sendOp, lock>>
          ELSE IF first_ok
            THEN /\ wire' = attempt
                 /\ data_stats' = StatsSent(data_stats, effective_rel, len)
                 /\ res' = ok("lk_send_data_ex")
                 /\ UNCHANGED <<sendOp, lock>>
          ELSE /\ wire' = attempt
               /\ sendOp' = [active |-> TRUE, reliability |-> reliability,
                             effective_rel |-> effective_rel,
                             topic |-> topic, len |-> len]
               /\ UNCHANGED <<data_stats, res, lock>>
    /\ UNCHANGED <<clientVars, registryVars, pushVars, data_labels>>
    /\ UNCHANGED inboundVars
    /\ UNCHANGED taskVars

\* Entry of lk_send_data_ex through the first send_once; first_ok is the
\* outcome of that attempt. A failed first attempt leaves the call in its
\* 100 ms backoff with the lock held.
lk_send_data_ex(len, reliability, label, first_ok) ==
    /\ lock = "free"
    /\ Spend(1)
    /\ LET effective_rel == EffectiveRel(reliability, len)
           size_error == SizeError(effective_rel, len)
           topic == Topic(effective_rel, label)
           attempt == [attempts |-> 1, reliability |-> reliability,
                       tier |-> effective_rel, topic |-> topic, len |-> len]
       IN IF room = NoRoom
            THEN /\ res' = err("lk_send_data_ex", 6, <<"not connected">>)
                 /\ UNCHANGED <<data_stats, wire, sendOp, lock>>
          ELSE IF size_error # 0
            THEN /\ res' = err("lk_send_data_ex", size_error,
                               <<"data size exceeds limit">>)
                 /\ UNCHANGED <<data_stats, wire, sendOp, lock>>
          ELSE IF first_ok
            THEN /\ wire' = attempt
                 /\ data_stats' = StatsSent(data_stats, effective_rel, len)
                 /\ res' = ok("lk_send_data_ex")
                 /\ UNCHANGED <<sendOp, lock>>
          ELSE /\ wire' = attempt
               /\ sendOp' = [active |-> TRUE, reliability |-> reliability,
                             effective_rel |-> effective_rel,
                             topic |-> topic, len |-> len]
               /\ lock' = "send"
               /\ UNCHANGED <<data_stats, res>>
    /\ UNCHANGED <<clientVars, registryVars, pushVars, data_labels>>
    /\ UNCHANGED inboundVars
    /\ UNCHANGED taskVars

\* faulty variant: a successful retry accounts the payload once per attempt
SendRetryRecounts(retry_ok) ==
    /\ lock = "send"
    /\ wire' = [wire EXCEPT !.attempts = @ + 1]
    /\ IF retry_ok
         THEN /\ data_stats' = StatsSent(StatsSent(data_stats, sendOp.effective_rel,
                                                   sendOp.len),
                                         sendOp.effective_rel, sendOp.len)
              /\ res' = ok("lk_send_data_ex")
         ELSE /\ data_stats' = StatsDropped(data_stats, sendOp.effective_rel)
              /\ res' = err("lk_send_data_ex", 203, <<"byte_stream write failed">>)
    /\ sendOp' = NoSend
    /\ lock' = "free"
    /\ UNCHANGED <<clientVars, registryVars, pushVars, data_labels, work>>
    /\ UNCHANGED inboundVars
    /\ UNCHANGED taskVars

\* After the backoff: the one retry and the statistics; retry_ok is the
\* outcome of the second send_once.
SendRetry(retry_ok) ==
    /\ lock = "send"
    /\ wire' = [wire EXCEPT !.attempts = @ + 1]
    /\ IF retry_ok
         THEN /\ data_stats' = StatsSent(data_stats, sendOp.effective_rel, sendOp.len)
              /\ res' = ok("lk_send_data_ex")
         ELSE /\ data_stats' = StatsDropped(data_stats, sendOp.effective_rel)
              /\ res' = err("lk_send_data_ex", 203, <<"byte_stream write failed">>)
    /\ sendOp' = NoSend
    /\ lock' = "free"
    /\ UNCHANGED <<clientVars, registryVars, pushVars, data_labels, work>>
    /\ UNCHANGED inboundVars
    /\ UNCHANGED taskVars

\* lk_set_default_data_labels: each label that is not null and is UTF-8
\* replaces the default of its tier
lk_set_default_data_labels(reliable_label, lossy_label) ==
    /\ lock = "free"
    /\ Spend(1)
    /\ data_labels' =
          [reliable |-> IF cstr(reliable_label).okay THEN cstr(reliable_label).s
                        ELSE data_labels.reliable,
           lossy |-> IF cstr(lossy_label).okay THEN cstr(lossy_label).s
                     ELSE data_labels.lossy]
    /\ res' = ok("lk_set_default_data_labels")
    /\ UNCHANGED <<clientVars, registryVars, pushVars, data_stats, wire, sendOp,
                   lock>>
    /\ UNCHANGED inboundVars
    /\ UNCHANGED taskVars

\* lk_get_data_stats: the four counters as they stand, read under the lock
lk_get_data_stats ==
    /\ lock = "free"
    /\ res' = [op |-> "lk_get_data_stats", code |-> 0, msg |-> << >>,
               out_stats |-> data_stats]
    /\ UNCHANGED <<clientVars, registryVars, pushVars, dataVars, lock, work>>
    /\ UNCHANGED inboundVars
    /\ UNCHANGED taskVars

\* lk_send_data: lk_send_data_ex with ordered = 1 and no label
lk_send_data(len, reliability, first_ok) ==
    lk_send_data_ex(len, reliability, NullLabel, first_ok)

----------------------------------------------------------------------------
Ids == 1..(IdModulus - 1)
Batches == 0..MaxWork      \* frames_per_channel of one push

\* Formats of the implicit default pipeline (sample_rate, channels): with
\* the default 1000 ms buffer, 2 Hz mono gives a ring of 2 samples and a
\* frame of 1; 200 Hz mono gives a frame of 2 samples.
RingFormats == { [sample_rate |-> 2,   channels |-> 1],
                 [sample_rate |-> 200, channels |-> 1] }

\* One implicit pipeline, its producer and its pacing worker.
NextRing ==
    \/ \E net_ok \in BOOLEAN : lk_connect(net_ok)
    \/ lk_disconnect
    \/ \E f \in RingFormats, n \in Batches, publish_ok \in BOOLEAN :
          lk_publish_audio_pcm_i16(f.sample_rate, f.channels, n, publish_ok)
    \/ PushSample
    \/ PushOverflow
    \/ PushDone
    \/ \E id \in Ids : WorkerPop(id, TRUE)          \* the audio source takes
    \/ \E id \in Ids : WorkerUnderrun(id, TRUE)     \* every frame here

SpecRing == Init /\ [][NextRing]_vars

\* The same pipeline in front of an audio source that may refuse any frame.
NextPacing ==
    \/ \E net_ok \in BOOLEAN : lk_connect(net_ok)
    \/ lk_disconnect
    \/ \E f \in RingFormats, n \in Batches, publish_ok \in BOOLEAN :
          lk_publish_audio_pcm_i16(f.sample_rate, f.channels, n, publish_ok)
    \/ PushSample
    \/ PushOverflow
    \/ PushDone
    \/ \E id \in Ids, capture_ok \in BOOLEAN : WorkerPop(id, capture_ok)
    \/ \E id \in Ids, capture_ok \in BOOLEAN : WorkerUnderrun(id, capture_ok)

SpecPacing == Init /\ [][NextPacing]_vars

\* The push loop never blocks, so the calling thread runs it to its end;
\* the runtime keeps polling the pacing worker of every live pipeline.
FairRing ==
    /\ SpecRing
    /\ WF_vars(PushSample \/ PushOverflow \/ PushDone)
    /\ \A id \in Ids : WF_vars(WorkerPop(id, TRUE) \/ WorkerUnderrun(id, TRUE))

\* The registry: explicit tracks next to the implicit default one.
NextAudio ==
    \/ \E net_ok \in BOOLEAN : lk_connect(net_ok)
    \/ lk_disconnect
    \/ \E cfg \in Formats, label \in Labels, publish_ok \in BOOLEAN :
          lk_audio_track_create(cfg, label, publish_ok)
    \/ \E h \in handles : lk_audio_track_destroy(h)
    \/ \E cfg \in Formats, n \in Batches, publish_ok \in BOOLEAN :
          lk_publish_audio_pcm_i16(cfg.sample_rate, cfg.channels, n, publish_ok)
    \/ \E h \in handles, n \in Batches :
          lk_audio_track_publish_pcm_i16(h, n)
    \/ PushSample
    \/ PushOverflow
    \/ PushDone
    \/ \E id \in Ids : WorkerPop(id, TRUE)          \* the audio source takes
    \/ \E id \in Ids : WorkerUnderrun(id, TRUE)     \* every frame here

SpecAudio == Init /\ [][NextAudio]_vars

\* Payload lengths around the two limits
Lens == {LOSSY_MAX, LOSSY_MAX + 1, RELIABLE_MAX, RELIABLE_MAX + 1}
Tiers == {"Reliable", "Lossy"}
LabelArgs == {NullLabel, "custom"}

\* The data sender on one client.
NextData ==
    \/ \E net_ok \in BOOLEAN : lk_connect(net_ok)
    \/ lk_disconnect
    \/ \E len \in Lens, rel \in Tiers, label \in LabelArgs, first_ok \in BOOLEAN :
          lk_send_data_ex(len, rel, label, first_ok)
    \/ \E retry_ok \in BOOLEAN : SendRetry(retry_ok)
    \/ lk_get_data_stats

SpecData == Init /\ [][NextData]_vars

\* The session's life: blocking and asynchronous connects, disconnect, and
\* the registry (pushes carry no samples here).
NextSession ==
    \/ \E net_ok \in BOOLEAN : lk_connect(net_ok)
    \/ lk_connect_async
    \/ \E t \in pending, net_ok \in BOOLEAN : AsyncConnectDone(t, net_ok)
    \/ lk_disconnect
    \/ lk_client_is_ready
    \/ \E f \in Formats, publish_ok \in BOOLEAN :
          lk_publish_audio_pcm_i16(f.sample_rate, f.channels, 0, publish_ok)
    \/ PushDone
    \/ \E cfg \in Formats, label \in Labels, publish_ok \in BOOLEAN :
          lk_audio_track_create(cfg, label, publish_ok)
    \/ \E h \in handles : lk_audio_track_destroy(h)

SpecSession == Init /\ [][NextSession]_vars

\* A client whose id counter has been advanced by any number of earlier
\* registration attempts (each attempt, failed ones included, advances it,
\* so every value from 1 up is reached; the run's work pays for a few more).
InitIds == \E n \in Ids : InitAt(n)

\* the one format asked for while the counter goes around
IdFormat == [sample_rate |-> 20, channels |-> 1, buffer_ms |-> 100]

\* The registry with its id counter on the way around.
NextIds ==
    \/ \E net_ok \in BOOLEAN : lk_connect(net_ok)
    \/ lk_disconnect
    \/ \E label \in Labels, publish_ok \in BOOLEAN :
          lk_audio_track_create(IdFormat, label, publish_ok)
    \/ \E h \in handles : lk_audio_track_destroy(h)
    \/ \E publish_ok \in BOOLEAN :
          lk_publish_audio_pcm_i16(IdFormat.sample_rate, IdFormat.channels, 0,
                                   publish_ok)
    \/ PushDone

SpecIds == InitIds /\ [][NextIds]_vars

\* The same calls on a new client: its counter stays short of the wrap.
SpecHandles == Init /\ [][NextIds]_vars

\* The tasks of a connection: the pacing workers of its pipelines and the
\* forwarding tasks of its remote audio tracks, with the calls that start
\* and end them.
NextTasks ==
    \/ \E net_ok \in BOOLEAN : lk_connect(net_ok)
    \/ lk_disconnect
    \/ \E set \in BOOLEAN : lk_client_set_audio_callback(set)
    \/ \E s \in DOMAIN dispatch : TrackSubscribed(s)
    \/ \E t \in DOMAIN forwards : ForwardFrame(t)
    \/ \E t \in DOMAIN forwards : StreamEnded(t)
    \/ \E label \in Labels, publish_ok \in BOOLEAN :
          lk_audio_track_create(IdFormat, label, publish_ok)
    \/ \E h \in handles : lk_audio_track_destroy(h)
    \/ \E id \in Ids, capture_ok \in BOOLEAN : WorkerUnderrun(id, capture_ok)

SpecTasks == Init /\ [][NextTasks]_vars

\* The pacing worker of the default pipeline next to everything that holds
\* the client lock for a while: a push, a send in its backoff, a foreign
\* callback the event loop has entered.
NextLockFree ==
    \/ \E net_ok \in BOOLEAN : lk_connect(net_ok)
    \/ \E f \in RingFormats, n \in Batches, publish_ok \in BOOLEAN :
          lk_publish_audio_pcm_i16(f.sample_rate, f.channels, n, publish_ok)
    \/ PushSample
    \/ PushOverflow
    \/ PushDone
    \/ \E first_ok \in BOOLEAN :
          lk_send_data_ex(LOSSY_MAX, "Reliable", NullLabel, first_ok)
    \/ \E retry_ok \in BOOLEAN : SendRetry(retry_ok)
    \/ lk_set_connection_callback(TRUE)
    \/ Inbound("Disconnected", "none")
    \/ \E s \in DOMAIN dispatch : DispatchRecv(s)
    \/ \E s \in DOMAIN dispatch : DispatchCall(s)
    \/ \E s \in DOMAIN dispatch : CallbackReturn(s)
    \/ \E id \in Ids : WorkerPop(id, TRUE)
    \/ \E id \in Ids : WorkerUnderrun(id, TRUE)

SpecLockFree == Init /\ [][NextLockFree]_vars

\* A stereo track: 100 Hz with a 100 ms buffer has a ring of 20 samples and
\* a frame of 2 samples (one per channel).
StereoFormat == [sample_rate |-> 100, channels |-> 2, buffer_ms |-> 100]

\* Interleaved stereo through an explicit track, producer and pacing worker
\* running side by side (the ring of 20 samples never fills in a run, so
\* the push always ends with its whole batch queued).
NextInterleave ==
    \/ \E net_ok \in BOOLEAN : lk_connect(net_ok)
    \/ \E label \in Labels, publish_ok \in BOOLEAN :
          lk_audio_track_create(StereoFormat, label, publish_ok)
    \/ \E h \in handles, n \in Batches : lk_audio_track_publish_pcm_i16(h, n)
    \/ PushSample
    \/ PushDone
    \/ \E id \in Ids : WorkerPop(id, TRUE)
    \/ \E id \in Ids : WorkerUnderrun(id, TRUE)

SpecInterleave == Init /\ [][NextInterleave]_vars

\* The three callback setters next to everything that invokes a callback:
\* the event loop and the forwarding tasks.
NextCallbacks ==
    \/ \E net_ok \in BOOLEAN : lk_connect(net_ok)
    \/ \E set \in BOOLEAN : lk_client_set_data_callback(set)
    \/ \E set \in BOOLEAN : lk_client_set_audio_callback(set)
    \/ \E set \in BOOLEAN : lk_set_connection_callback(set)
    \/ \E tag \in {"ByteStreamOpened", "Disconnected"} : Inbound(tag, "present")
    \/ \E s \in DOMAIN dispatch : DispatchRecv(s)
    \/ \E s \in DOMAIN dispatch, read_ok \in BOOLEAN : DispatchRead(s, read_ok)
    \/ \E s \in DOMAIN dispatch : DispatchCall(s)
    \/ \E s \in DOMAIN dispatch : CallbackReturn(s)
    \/ \E s \in DOMAIN dispatch : TrackSubscribed(s)
    \/ \E t \in DOMAIN forwards : ForwardFrame(t)

SpecCallbacks == Init /\ [][NextCallbacks]_vars

\* Asynchronous connects only: calls, the attempts they spawn, disconnects
\* and the connection callback that is told about them.
NextAsync ==
    \/ lk_connect_async
    \/ \E t \in pending, net_ok \in BOOLEAN : AsyncConnectDone(t, net_ok)
    \/ lk_disconnect
    \/ \E set \in BOOLEAN : lk_set_connection_callback(set)

SpecAsync == Init /\ [][NextAsync]_vars

\* Async attempts on a client that is never disconnected, with the
\* connection callback registered, replaced and cleared along the way.
NextAttempts ==
    \/ lk_connect_async
    \/ \E t \in pending, net_ok \in BOOLEAN : AsyncConnectDone(t, net_ok)
    \/ \E set \in BOOLEAN : lk_set_connection_callback(set)

SpecAttempts == Init /\ [][NextAttempts]_vars

\* The runtime keeps polling a spawned attempt, and Room::connect comes
\* back with a connection or an error.
FairAttempts ==
    /\ SpecAttempts
    /\ WF_vars(\E t \in pending, net_ok \in BOOLEAN : AsyncConnectDone(t, net_ok))

\* The life of a client up to and past lk_client_destroy: calls that take
\* the client pointer are made only while the client exists; the tasks
\* run, and track handles are used, for as long as they live.
NextDestroy ==
    \/ ~destroyed /\ \E net_ok \in BOOLEAN : lk_connect(net_ok)
    \/ ~destroyed /\ lk_disconnect
    \/ ~destroyed /\ \E set \in BOOLEAN : lk_set_connection_callback(set)
    \/ ~destroyed /\ \E label \in Labels, publish_ok \in BOOLEAN :
                        lk_audio_track_create(IdFormat, label, publish_ok)
    \/ lk_client_destroy
    \/ \E h \in handles : lk_audio_track_destroy(h)
    \/ Inbound("ConnectionStateChanged", "none")
    \/ \E s \in DOMAIN dispatch : DispatchRecv(s)
    \/ \E s \in DOMAIN dispatch : DispatchCall(s)
    \/ \E s \in DOMAIN dispatch : CallbackReturn(s)
    \/ \E s \in DOMAIN dispatch : TrackSubscribed(s)
    \/ \E t \in DOMAIN forwards : ForwardFrame(t)
    \/ \E t \in DOMAIN forwards : StreamEnded(t)
    \/ \E id \in Ids : WorkerUnderrun(id, TRUE)

SpecDestroy == Init /\ [][NextDestroy]_vars

\* One sender next to every call and task that stores or closes the
\* connection.
NextSendAtomic ==
    \/ \E net_ok \in BOOLEAN : lk_connect(net_ok)
    \/ lk_connect_async
    \/ \E t \in pending, net_ok \in BOOLEAN : AsyncConnectDone(t, net_ok)
    \/ lk_disconnect
    \/ \E first_ok \in BOOLEAN :
          lk_send_data_ex(LOSSY_MAX, "Reliable", NullLabel, first_ok)
    \/ \E retry_ok \in BOOLEAN : SendRetry(retry_ok)

SpecSendAtomic == Init /\ [][NextSendAtomic]_vars

\* The two unsupported calls against a client that connects with any
\* role, registers pipelines and sends.
NextUnsupported ==
    \/ \E r \in Roles, net_ok \in BOOLEAN : lk_connect_with_role(r, net_ok)
    \/ lk_disconnect
    \/ lk_refresh_token
    \/ \E r \in Roles : lk_set_role(r)
    \/ \E rel \in Tiers, first_ok \in BOOLEAN :
          lk_send_data_ex(LOSSY_MAX, rel, NullLabel, first_ok)
    \/ \E retry_ok \in BOOLEAN : SendRetry(retry_ok)
    \/ \E cfg \in Formats, label \in Labels, publish_ok \in BOOLEAN :
          lk_audio_track_create(cfg, label, publish_ok)

SpecUnsupported == Init /\ [][NextUnsupported]_vars

Sessions == DOMAIN dispatch

\* The event loops of a client's sessions with the foreign side
\* registering callbacks, connecting and disconnecting.
NextInbound ==
    \/ \E net_ok \in BOOLEAN : lk_connect(net_ok)
    \/ lk_disconnect
    \/ \E set \in BOOLEAN : lk_client_set_data_callback(set)
    \/ \E set \in BOOLEAN : lk_client_set_data_callback_ex(set)
    \/ \E set \in BOOLEAN : lk_set_connection_callback(set)
    \/ \E tag \in EventTags, reader \in Readers : Inbound(tag, reader)
    \/ \E s \in Sessions : DispatchRecv(s)
    \/ \E s \in Sessions, read_ok \in BOOLEAN : DispatchRead(s, read_ok)
    \/ \E s \in Sessions : DispatchCall(s)
    \/ \E s \in Sessions : CallbackReturn(s)

SpecInbound == Init /\ [][NextInbound]_vars

\* Audio pushes of one thread while another thread sends data.
NextContention ==
    \/ \E net_ok \in BOOLEAN : lk_connect(net_ok)
    \/ \E cfg \in Formats, label \in Labels, publish_ok \in BOOLEAN :
          lk_audio_track_create(cfg, label, publish_ok)
    \/ \E cfg \in Formats, n \in Batches, publish_ok \in BOOLEAN :
          lk_publish_audio_pcm_i16(cfg.sample_rate, cfg.channels, n, publish_ok)
    \/ \E h \in handles, n \in Batches : lk_audio_track_publish_pcm_i16(h, n)
    \/ PushSample
    \/ PushOverflow
    \/ PushDone
    \/ \E rel \in Tiers, first_ok \in BOOLEAN :
          lk_send_data_ex(LOSSY_MAX, rel, NullLabel, first_ok)
    \/ \E retry_ok \in BOOLEAN : SendRetry(retry_ok)

SpecContention == Init /\ [][NextContention]_vars

\* Arguments around the parameter checks: the valid call and the calls
\* that differ from it in one argument
GoodFormat == [sample_rate |-> 20, channels |-> 1, buffer_ms |-> 100]
BadFormats ==
    { [GoodFormat EXCEPT !.sample_rate = 0], [GoodFormat EXCEPT !.channels = -1] }
ArgFormats == {GoodFormat} \cup BadFormats

SetFormatArgs ==
    [client : {"valid"}, fmt : ArgFormats]
      \cup [client : {"null"}, fmt : {GoodFormat}]

PublishArgs ==
    [client : {"valid"}, pcm : {"valid"}, fmt : ArgFormats]
      \cup { [client |-> "null", pcm |-> "valid", fmt |-> GoodFormat],
             [client |-> "valid", pcm |-> "null", fmt |-> GoodFormat] }

CreateArgs ==
    [client : {"valid"}, config : {"valid"}, out_track : {"valid"}, fmt : ArgFormats]
      \cup { [client |-> "null", config |-> "valid", out_track |-> "valid",
              fmt |-> GoodFormat],
             [client |-> "valid", config |-> "null", out_track |-> "valid",
              fmt |-> GoodFormat],
             [client |-> "valid", config |-> "valid", out_track |-> "null",
              fmt |-> GoodFormat] }

SetFormatCall(a) ==
    lk_set_audio_output_format(a.client, a.fmt.sample_rate, a.fmt.channels)

PublishCall(a) ==
    \E publish_ok \in BOOLEAN :
       lk_publish_audio_pcm_i16_entry(a.client, a.pcm, a.fmt.sample_rate,
                                      a.fmt.channels, 1, publish_ok)

CreateCall(a) ==
    \E label \in Labels, publish_ok \in BOOLEAN :
       lk_audio_track_create_entry(a.client, a.config, a.out_track, a.fmt,
                                   label, publish_ok)

\* The three entry points that validate an audio format, called with
\* valid and invalid arguments on a client that connects and disconnects.
NextArgs ==
    \/ \E net_ok \in BOOLEAN : lk_connect(net_ok)
    \/ lk_disconnect
    \/ \E a \in SetFormatArgs : SetFormatCall(a)
    \/ \E a \in PublishArgs : PublishCall(a)
    \/ \E a \in CreateArgs : CreateCall(a)
    \/ \E h \in handles : lk_audio_track_publish_pcm_i16(h, 1)
    \/ PushSample
    \/ PushOverflow
    \/ PushDone

SpecArgs == Init /\ [][NextArgs]_vars

\* Labels a caller passes: none, one that is not UTF-8, a proper one
LabelValues == {NullLabel, NonUtf8, "pose"}

\* The data sender with its default labels reconfigured between sends.
NextLabels ==
    \/ \E net_ok \in BOOLEAN : lk_connect(net_ok)
    \/ \E reliable_label \in LabelValues, lossy_label \in LabelValues :
          lk_set_default_data_labels(reliable_label, lossy_label)
    \/ \E len \in {LOSSY_MAX, LOSSY_MAX + 1}, rel \in Tiers,
          label \in LabelValues, first_ok \in BOOLEAN :
          lk_send_data_ex(len, rel, label, first_ok)
    \/ \E retry_ok \in BOOLEAN : SendRetry(retry_ok)

SpecLabels == Init /\ [][NextLabels]_vars

----------------------------------------------------------------------------
(* Properties *)

Range(q) == { q[i] : i \in 1..Len(q) }
Samples == 1..MaxWork

\* samples of the batch of the push in progress that are not yet pushed
Pending(id) ==
    IF lock = "push" /\ pushOp.track_id = id
      THEN Len(pushOp.data) - pushOp.pushed ELSE 0

\* what left the ring, in order: captured frames, then the frame being
\* filled, then what is still queued
Consumed(p) == p.captured \o SubSeq(p.buf, 1, p.got)

FifoOrder ==
    \A id \in DOMAIN audio_tracks :
       LET p == audio_tracks[id]
       IN /\ Consumed(p) \o p.ring = p.enq
          /\ p.overruns = 0 =>
                p.enq = SubSeq(p.offered, 1, Len(p.offered) - Pending(id))

EventuallyCaptured ==
    \A id \in Ids, s \in Samples :
       (id \in DOMAIN audio_tracks /\ s \in Range(audio_tracks[id].offered))
         ~> \/ id \notin DOMAIN audio_tracks
            \/ audio_tracks[id].overruns > 0
            \/ s \in Range(audio_tracks[id].captured)

\* C1: on one pipeline with its producer and its pacing worker, as long as
\* no push found the ring full, the samples captured so far, the samples of
\* the frame being filled and the queued samples are together exactly the
\* samples pushed, in push order (no loss, duplication or reordering); and
\* under fair scheduling every pushed sample is eventually captured unless
\* the pipeline is torn down or a push overflows.
C1_FifoDelivery == []FifoOrder /\ EventuallyCaptured

\* C1 witness: a pipeline without overruns has captured every pushed
\* sample, at least two of them.
C1_Witness ==
    \E id \in DOMAIN audio_tracks :
       LET p == audio_tracks[id]
       IN p.overruns = 0 /\ Len(p.captured) >= 2 /\ p.captured = p.offered

BatchIn(q, data) ==
    LET InBatch(s) == s \in Range(data) IN SelectSeq(q, InBatch)

AbandonedNeverQueued ==
    \A id \in DOMAIN audio_tracks :
       LET p == audio_tracks[id]
       IN (Range(p.enq) \cup Range(p.ring) \cup Range(Consumed(p)))
             \cap abandoned = {}

OverrunPerCall ==
    [][ \A id \in DOMAIN audio_tracks \cap DOMAIN audio_tracks' :
          LET p == audio_tracks[id]
              q == audio_tracks'[id]
              returns == lock = "push" /\ lock' = "free" /\ pushOp.track_id = id
              K == pushOp.pushed
              N == Len(pushOp.data)
          IN /\ (returns /\ K < N) =>
                   /\ RingFull(p)
                   /\ q.overruns = p.overruns + 1
                   /\ BatchIn(q.enq, pushOp.data) = SubSeq(pushOp.data, 1, K)
                   /\ abandoned' = abandoned \cup
                                     { pushOp.data[i] : i \in (K + 1)..N }
             /\ (returns /\ K = N) =>
                   /\ q.overruns = p.overruns
                   /\ BatchIn(q.enq, pushOp.data) = pushOp.data
                   /\ abandoned' = abandoned
             /\ ~returns => q.overruns = p.overruns ]_vars

C3_UnderrunZeroPads ==
    [][ \A id \in DOMAIN audio_tracks \cap DOMAIN audio_tracks' :
          LET p == audio_tracks[id]
              q == audio_tracks'[id]
              F == Len(p.buf)
              base == Len(p.captured)
              g == q.frame.real
              delivered == \/ q.frame # p.frame
                           \/ q.underruns # p.underruns
                           \/ q.captured # p.captured
          IN delivered =>
               /\ g \in 0..F
               /\ q.frame.data = SubSeq(p.enq, base + 1, base + g) \o Zeros(F - g)
               /\ q.captured = p.captured \o SubSeq(p.enq, base + 1, base + g)
               /\ g < F => /\ p.ring = << >>
                           /\ q.ring = << >>
                           /\ q.underruns = p.underruns + 1
               /\ g = F => q.underruns = p.underruns ]_vars

\* C3 witness: a frame was captured that is part ring samples, part
\* padding, after an earlier full frame.
C3_Witness ==
    \E id \in DOMAIN audio_tracks :
       LET p == audio_tracks[id]
       IN /\ p.frame.real >= 1
          /\ p.frame.real < Len(p.buf)
          /\ p.underruns >= 1
          /\ Len(p.captured) > Len(p.buf)

DefaultLive ==
    /\ default_audio_track_id # NoId
    /\ default_audio_track_id \in DOMAIN audio_tracks

\* Every step of an API function either returns to the caller or takes
\* the call into its loop with the lock held; a step that does neither is
\* no step of op.
MayBeStepOf(op) ==
    /\ lock = "free"
    /\ \/ lock' = "push" /\ pushOp'.op = op
       \/ lock' = "free" /\ res'.op = op

\* a step of lk_publish_audio_pcm_i16 with sample rate and channel count f,
\* whatever the number of frames and the outcome of a publish round-trip
DefaultPush(f) ==
    \E n \in Batches, publish_ok \in BOOLEAN :
       lk_publish_audio_pcm_i16(f.sample_rate, f.channels, n, publish_ok)

DefaultMatches(f) ==
    /\ DefaultLive
    /\ ~FormatMismatch(audio_tracks[default_audio_track_id],
                       f.sample_rate, f.channels)

OneDefaultPipeline ==
    Cardinality({ id \in DOMAIN audio_tracks :
                    audio_tracks[id].label = "ue-audio" }) <= 1

DefaultPushResolves ==
    [][ (room # NoRoom /\ MayBeStepOf("lk_publish_audio_pcm_i16")) =>
        \A f \in Formats :
          DefaultPush(f) =>
             LET d == default_audio_track_id
                 id == next_audio_track_id
             IN /\ DefaultMatches(f) =>
                     \* the same id again; no id taken, so no registration
                     \* and no publish round-trip
                     /\ default_audio_track_id' = d
                     /\ next_audio_track_id' = id
                     /\ DOMAIN audio_tracks' = DOMAIN audio_tracks
                     /\ lock' = "push" /\ pushOp'.track_id = d
                /\ ~DefaultLive =>
                     \* one registration attempt, for the new default
                     /\ next_audio_track_id' = next_id_after(id)
                     /\ \/ /\ res'.code = 7
                           /\ default_audio_track_id' = NoId
                           /\ audio_tracks' = audio_tracks
                        \/ /\ lock' = "push" /\ pushOp'.track_id = id
                           /\ default_audio_track_id' = id
                           /\ DOMAIN audio_tracks' = DOMAIN audio_tracks \cup {id}
                /\ next_audio_track_id' # id => ~DefaultLive ]_vars

\* C4: a default push whose format matches the live default pipeline
\* resolves to that pipeline's id and registers nothing (the id counter and
\* the registry's keys are unchanged, so no pipeline is created and no
\* track published); a default push registers a new default only when no
\* live default exists; the registry never holds two implicit pipelines.
C4_EnsureDefaultIdempotent == []OneDefaultPipeline /\ DefaultPushResolves

\* C4 witness: a second default push is going into the one pipeline the
\* first default push registered.
C4_Witness ==
    /\ lock = "push"
    /\ pushOp.op = "lk_publish_audio_pcm_i16"
    /\ DefaultLive
    /\ pushOp.track_id = default_audio_track_id
    /\ Len(audio_tracks[default_audio_track_id].offered) > Len(pushOp.data)
    /\ next_audio_track_id = 2
    /\ Cardinality(DOMAIN audio_tracks) = 1

----------------------------------------------------------------------------
(* Data sender: tiers, retry and statistics *)

\* the statistics after one counter grew by n and nothing else changed
Counted(field, n) == data_stats' = [data_stats EXCEPT ![field] = @ + n]

SentField(tier) ==
    IF tier = "Reliable" THEN "reliable_sent_bytes" ELSE "lossy_sent_bytes"

DroppedField(tier) ==
    IF tier = "Reliable" THEN "reliable_dropped" ELSE "lossy_dropped"

\* a step of lk_send_data_ex that passed the connection check
SendCall(len, reliability, label, first_ok) ==
    /\ room # NoRoom
    /\ lk_send_data_ex(len, reliability, label, first_ok)

\* C6: a Lossy send of 1300 < L <= 15360 bytes goes out on the Reliable
\* tier and, when it succeeds (at the first attempt or at the retry),
\* reliable_sent_bytes grows by exactly L and no other counter changes; a
\* Lossy send of L <= 1300 bytes goes out Lossy and never changes a
\* reliable counter.
C6_LossyFallback ==
    [][ /\ \A len \in Lens, label \in LabelArgs, first_ok \in BOOLEAN :
             SendCall(len, "Lossy", label, first_ok) =>
               /\ (LOSSY_MAX < len /\ len <= RELIABLE_MAX) =>
                    /\ wire'.attempts = 1
                    /\ wire'.tier = "Reliable"
                    /\ wire'.len = len
                    /\ first_ok => /\ res' = ok("lk_send_data_ex")
                                   /\ Counted("reliable_sent_bytes", len)
               /\ len <= LOSSY_MAX =>
                    /\ wire'.attempts = 1
                    /\ wire'.tier = "Lossy"
                    /\ wire'.len = len
                    /\ first_ok => /\ res' = ok("lk_send_data_ex")
                                   /\ Counted("lossy_sent_bytes", len)
        /\ \A retry_ok \in BOOLEAN :
             (wire.reliability = "Lossy" /\ SendRetry(retry_ok)) =>
               /\ wire.len > LOSSY_MAX =>
                    /\ wire'.tier = "Reliable"
                    /\ retry_ok => Counted("reliable_sent_bytes", wire.len)
               /\ wire.len <= LOSSY_MAX =>
                    /\ wire'.tier = "Lossy"
                    /\ data_stats'.reliable_sent_bytes = data_stats.reliable_sent_bytes
                    /\ data_stats'.reliable_dropped = data_stats.reliable_dropped
                    /\ retry_ok => Counted("lossy_sent_bytes", wire.len) ]_vars

\* C6 witness: the only send so far asked for Lossy with one byte more than
\* the lossy limit, went out Reliable and was accounted there.
C6_Witness ==
    /\ res = ok("lk_send_data_ex")
    /\ wire.reliability = "Lossy"
    /\ wire.tier = "Reliable"
    /\ wire.len = LOSSY_MAX + 1
    /\ data_stats = [reliable_sent_bytes |-> LOSSY_MAX + 1, reliable_dropped |-> 0,
                     lossy_sent_bytes |-> 0, lossy_dropped |-> 0]

\* C7: when the first attempt fails nothing is counted and the call goes
\* into its single retry; when the retry succeeds the call returns success
\* and the sent-bytes counter of the effective tier grows by the payload
\* length once, no drop counter changes; when the first attempt succeeds
\* the call returns at once (one attempt) with the same accounting.
C7_RetryCountsOnce ==
    [][ /\ \A len \in Lens, rel \in Tiers, label \in LabelArgs :
             /\ (len <= RELIABLE_MAX /\ SendCall(len, rel, label, FALSE)) =>
                  /\ data_stats' = data_stats
                  /\ wire'.attempts = 1
                  /\ lock' = "send"
             /\ (len <= RELIABLE_MAX /\ SendCall(len, rel, label, TRUE)) =>
                  /\ res' = ok("lk_send_data_ex")
                  /\ wire'.attempts = 1
                  /\ lock' = "free" /\ sendOp' = NoSend
                  /\ Counted(SentField(wire'.tier), len)
        /\ SendRetry(TRUE) =>
             /\ res' = ok("lk_send_data_ex")
             /\ wire'.attempts = 2
             /\ lock' = "free" /\ sendOp' = NoSend
             /\ Counted(SentField(wire.tier), wire.len) ]_vars

\* C7 witness: a send returned success at its second attempt and its
\* payload is in the statistics once.
C7_Witness ==
    /\ lock = "free"
    /\ res = ok("lk_send_data_ex")
    /\ wire.attempts = 2
    /\ wire.len > 0
    /\ data_stats[SentField(wire.tier)] = wire.len
    /\ data_stats.reliable_dropped = 0
    /\ data_stats.lossy_dropped = 0

AtMostTwoAttempts == wire.attempts <= 2

\* C8: when the retry fails too the call returns error 203 with two
\* attempts made and no third (the call is over: lock released), the drop
\* counter of the effective tier grows by one and no other counter
\* changes.
C8_DoubleFailure ==
    /\ []AtMostTwoAttempts
    /\ [][ SendRetry(FALSE) =>
             /\ wire.attempts = 1
             /\ wire'.attempts = 2
             /\ res'.op = "lk_send_data_ex"
             /\ res'.code = 203
             /\ lock' = "free" /\ sendOp' = NoSend
             /\ Counted(DroppedField(wire.tier), 1) ]_vars

\* C8 witness: a send failed twice and is the only entry of the statistics.
C8_Witness ==
    /\ lock = "free"
    /\ res.code = 203
    /\ wire.attempts = 2
    /\ data_stats[DroppedField(wire.tier)] = 1
    /\ data_stats.reliable_sent_bytes = 0
    /\ data_stats.lossy_sent_bytes = 0
    /\ data_stats[DroppedField(IF wire.tier = "Reliable" THEN "Lossy"
                                                          ELSE "Reliable")] = 0

----------------------------------------------------------------------------
(* Pushes without a connection; independence of pipelines *)

\* nothing of the audio side moves: no ring written, no pipeline created or
\* removed, no id taken, no push begun
NoAudioEffect == UNCHANGED <<registryVars, pushVars, lock>>

HandlePush(h, n) == lk_audio_track_publish_pcm_i16(h, n)

\* without a connection the registry is empty and no push is under way
NothingRegisteredOffline ==
    room = NoRoom => (audio_tracks = << >> /\ default_audio_track_id = NoId
                      /\ lock # "push")

DefaultPushOffline ==
    [][ (room = NoRoom /\ MayBeStepOf("lk_publish_audio_pcm_i16")) =>
        \A f \in Formats :
          DefaultPush(f) =>
             /\ res' = err("lk_publish_audio_pcm_i16", 6, <<"not connected">>)
             /\ NoAudioEffect ]_vars

OthersUntouched(id) ==
    \A i \in DOMAIN audio_tracks \ {id} :
       i \in DOMAIN audio_tracks' /\ audio_tracks'[i] = audio_tracks[i]

DestroyRemovesOne ==
    [][ MayBeStepOf("lk_audio_track_destroy") =>
        \A h \in handles :
          lk_audio_track_destroy(h) =>
             /\ DOMAIN audio_tracks' = DOMAIN audio_tracks \ {h}
             /\ OthersUntouched(h)
             /\ default_audio_track_id' =
                   IF default_audio_track_id = h THEN NoId
                                                 ELSE default_audio_track_id ]_vars

PushTouchesOne ==
    [][ /\ (lock = "free" /\ lock' = "push") =>
              /\ DOMAIN audio_tracks \subseteq DOMAIN audio_tracks'
              /\ OthersUntouched(pushOp'.track_id)
        /\ (PushSample \/ PushOverflow \/ PushDone) =>
              /\ DOMAIN audio_tracks' = DOMAIN audio_tracks
              /\ OthersUntouched(pushOp.track_id) ]_vars

\* the pacing worker of every registered pipeline that has samples queued
\* can take its next sample
WorkersLive ==
    \A i \in DOMAIN audio_tracks :
       audio_tracks[i].ring # << >> => ENABLED WorkerPop(i, TRUE)

\* C10: destroying a track removes that pipeline's entry and no other;
\* every other pipeline (format, ring, counters, worker state) is as
\* before and its worker can go on; the default reference changes only
\* if the destroyed id was the default; a push changes only the pipeline
\* it targets.
C10_PipelinesIndependent ==
    /\ DestroyRemovesOne
    /\ PushTouchesOne
    /\ []WorkersLive

\* C10 witness: one of two tracks has just been destroyed and the other
\* still holds the samples it was given.
C10_Witness ==
    /\ res = ok("lk_audio_track_destroy")
    /\ \E i \in DOMAIN audio_tracks :
          /\ i \in handles
          /\ audio_tracks[i].ring # << >>
          /\ \E j \in Ids \ {i} : j < next_audio_track_id /\ j \notin handles

----------------------------------------------------------------------------
(* Session invariants *)

\* C11: a set default reference names an id that is in the registry,
\* after any sequence of connects, disconnects, default pushes, track
\* creations and destructions, failed registrations included.
C11_DefaultNeverDangling ==
    default_audio_track_id # NoId => default_audio_track_id \in DOMAIN audio_tracks

\* C11 witness: a registration has just failed while the default
\* reference is set.
C11_Witness ==
    /\ default_audio_track_id # NoId
    /\ res.code = 7
    /\ next_audio_track_id > 2

NoPipelineOffline == room = NoRoom => audio_tracks = << >>

\* C12: when lk_disconnect returns the connection handle is None, the
\* registry is empty and the default reference is None; and in every
\* state a None connection handle goes with an empty registry.
C12_DisconnectClearsAll ==
    /\ []NoPipelineOffline
    /\ [][ (lock = "free" /\ res' = ok("lk_disconnect") /\ lk_disconnect) =>
             /\ room' = NoRoom
             /\ audio_tracks' = << >>
             /\ default_audio_track_id' = NoId ]_vars

\* C12 witness: a disconnect has just returned on a session that held a
\* track (its handle is still held) and a default pipeline.
C12_Witness ==
    /\ res = ok("lk_disconnect")
    /\ room = NoRoom
    /\ handles # {}
    /\ next_audio_track_id > 2
    /\ audio_tracks = << >>
    /\ default_audio_track_id = NoId

\* C13 as claimed: once lk_disconnect has returned the client stays not
\* connected until a connect issued after the disconnect succeeds; so an
\* asynchronous attempt issued before the disconnect (stale) that
\* finishes after it leaves it not connected.
C13_StaysDisconnected ==
    [][ \A t \in pending :
          (t.stale /\ room = NoRoom /\ \E net_ok \in BOOLEAN : AsyncConnectDone(t, net_ok))
             => room' = NoRoom ]_vars

----------------------------------------------------------------------------
(* Data sender: the size limit *)

\* some call of lk_send_data_ex with this payload length and tier
SendOf(len, reliability) ==
    \E label \in LabelArgs, first_ok \in BOOLEAN :
       lk_send_data_ex(len, reliability, label, first_ok)

\* C14 as claimed: every send of more than 15360 bytes fails with the
\* size-exceeded error (code 202).
C14_OversizeAlwaysSizeError ==
    [][ \A rel \in Tiers :
          SendOf(RELIABLE_MAX + 1, rel) => res'.code = 202 ]_vars

\* C14: a send of more than 15360 bytes, Reliable or Lossy (downgraded to
\* Reliable), fails at once: on a connected client with the size-exceeded
\* code 202, on a client that is not connected with "not connected" (6),
\* and in both cases with no stream opened, no attempt and no retry made
\* and no statistics counter changed; a payload of exactly 15360 bytes
\* passes the size check of a connected client and is attempted on the
\* Reliable tier.
C14_OversizeRejected ==
    [][ lock = "free" =>
          \A rel \in Tiers :
            /\ SendOf(RELIABLE_MAX + 1, rel) =>
                 /\ res'.op = "lk_send_data_ex"
                 /\ res'.code = IF room # NoRoom THEN 202 ELSE 6
                 /\ wire' = wire
                 /\ data_stats' = data_stats
                 /\ sendOp' = sendOp
                 /\ lock' = "free"
            /\ (room # NoRoom /\ SendOf(RELIABLE_MAX, rel)) =>
                 /\ wire'.attempts = 1
                 /\ wire'.tier = "Reliable"
                 /\ wire'.len = RELIABLE_MAX ]_vars

\* an oversize send was refused on a connected client that had sent before
C14_Witness ==
    /\ res.op = "lk_send_data_ex"
    /\ res.code = 202
    /\ room # NoRoom
    /\ wire.len = RELIABLE_MAX
    /\ data_stats.reliable_sent_bytes = RELIABLE_MAX

----------------------------------------------------------------------------
(* Data sender: the statistics over the client's life *)

StatFields ==
    {"reliable_sent_bytes", "reliable_dropped", "lossy_sent_bytes", "lossy_dropped"}

\* C16: none of the four data counters lk_get_data_stats reports ever
\* decreases, whatever the client does: sends that succeed, fail or are
\* refused, disconnect, reconnect; a disconnect leaves all four as they
\* were.
C16_CountersMonotone ==
    [][ /\ \A field \in StatFields : data_stats'[field] >= data_stats[field]
        /\ (lock = "free" /\ res' = ok("lk_disconnect") /\ lk_disconnect) =>
              data_stats' = data_stats
        /\ (lock = "free" /\ res'.op = "lk_get_data_stats" /\ lk_get_data_stats) =>
              res'.out_stats = data_stats ]_vars

\* a client that sent and dropped, was disconnected and is connected again
C16_Witness ==
    /\ res.op = "lk_get_data_stats"
    /\ res.out_stats = data_stats
    /\ room # NoRoom
    /\ nextConn > 2
    /\ data_stats.reliable_sent_bytes > 0
    /\ data_stats.lossy_dropped > 0

----------------------------------------------------------------------------
(* Unsupported operations *)

\* C15: lk_refresh_token and lk_set_role can be called in every state of
\* the client (connected or not, whatever another thread is in the middle
\* of), always return the unsupported error 501, and leave the role, the
\* connection, the registry, the configuration and the counters exactly
\* as they were.
C15_UnsupportedChangesNothing ==
    /\ [](ENABLED lk_refresh_token /\ \A r \in Roles : ENABLED lk_set_role(r))
    /\ [][ /\ (res'.op = "lk_refresh_token" /\ lk_refresh_token) =>
               (res'.code = 501 /\ UNCHANGED ClientState)
           /\ \A r \in Roles :
               (res'.op = "lk_set_role" /\ lk_set_role(r)) =>
                  (res'.code = 501 /\ UNCHANGED ClientState) ]_vars

\* a role change to another role than the session's was refused on a
\* connected client with a registered pipeline
C15_Witness ==
    /\ res.op = "lk_set_role"
    /\ res.code = 501
    /\ room # NoRoom
    /\ role # "Both"
    /\ audio_tracks # << >>

----------------------------------------------------------------------------
(* Event loop: order of handling and of the callbacks *)

\* the arrival number of the event a session's loop is handling, or of
\* the last one it finished
Current(s) == IF dispatch[s].busy THEN dispatch[s].ev.seq ELSE dispatch[s].done

\* every event still waiting in the channel arrived after the one in
\* handling, and the channel holds them in arrival order
ArrivalOrderKept ==
    \A s \in Sessions :
       /\ \A i \in DOMAIN events[s] : events[s][i].seq > Current(s)
       /\ \A i, j \in DOMAIN events[s] : i < j => events[s][i].seq < events[s][j].seq

\* a callback that was entered has returned before the next one is
\* entered, whichever thread or session enters it
CallbacksNeverOverlap ==
    \A i \in DOMAIN cbLog :
       cbLog[i].what = "call" =>
          \/ i = Len(cbLog)
          \/ cbLog[i + 1] = [cbLog[i] EXCEPT !.what = "return"]

\* the callbacks one session's event loop made are logged in the arrival
\* order of their events
CallbacksInArrivalOrder ==
    \A i, j \in DOMAIN cbLog :
       (/\ i < j
        /\ cbLog[i].what = "call" /\ cbLog[j].what = "call"
        /\ cbLog[i].session # 0 /\ cbLog[i].session = cbLog[j].session)
          => cbLog[i].seq < cbLog[j].seq

\* C17: the event loop of a session handles its inbound events one at a
\* time in arrival order: it begins with an event only when it has
\* finished with the one before (the byte stream read to its end, the
\* callback returned), the event it begins with is the oldest waiting
\* one, the callbacks it makes are observed in the arrival order of their
\* events, and no callback is entered while another is running.
C17_EventsInArrivalOrder ==
    /\ [](ArrivalOrderKept /\ CallbacksNeverOverlap /\ CallbacksInArrivalOrder)
    /\ [][ \A s \in Sessions :
             Current(s)' # Current(s) =>
               (~dispatch[s].busy /\ Current(s)' > Current(s)) ]_vars

\* a session's loop delivered a byte stream to the data callback and then
\* a later connection event to the connection callback
C17_Witness ==
    \E i, j \in DOMAIN cbLog :
       /\ i < j
       /\ cbLog[i].session # 0 /\ cbLog[i].session = cbLog[j].session
       /\ cbLog[i].what = "return" /\ cbLog[i].cb = "data_cb"
       /\ cbLog[j].what = "return" /\ cbLog[j].cb = "connection_cb"
       /\ cbLog[i].seq < cbLog[j].seq

----------------------------------------------------------------------------
(* Event loop: delivery of inbound byte streams *)

\* the loop of session s ends the handling of a byte stream it has read
\* successfully
StreamHandled(s) ==
    /\ dispatch[s].busy
    /\ dispatch[s].ev.tag = "ByteStreamOpened"
    /\ dispatch[s].stage \in {"locking", "calling"}
    /\ ~dispatch'[s].busy

\* callback cb was invoked for event seq of session s
Invoked(log, cb, s, seq) ==
    \E i \in DOMAIN log :
       /\ log[i].what = "call"
       /\ log[i].cb = cb
       /\ log[i].session = s
       /\ log[i].seq = seq

\* C19 as claimed: when the handling of a successfully read byte stream
\* ends and an extended data callback is registered, that callback has
\* been invoked for the stream.
C19_ExtendedCallbackInvoked ==
    [][ \A s \in Sessions :
          (StreamHandled(s) /\ callbacks.data_cb_ex) =>
             Invoked(cbLog', "data_cb_ex", s, dispatch[s].ev.seq) ]_vars

----------------------------------------------------------------------------
(* Audio push against the client lock *)

\* the pipelines a caller holds a handle to
LiveHandles == handles \cap DOMAIN audio_tracks

\* C18 as claimed: while another thread is inside a send that waits out
\* its retry backoff, a push into an existing pipeline can still proceed:
\* through each live track handle, and through the default entry with the
\* default pipeline's own format.
C18_PushNeverWaits ==
    lock = "send" =>
       /\ \A h \in LiveHandles : ENABLED lk_audio_track_publish_pcm_i16(h, 0)
       /\ DefaultLive =>
            ENABLED lk_publish_audio_pcm_i16(
                      audio_tracks[default_audio_track_id].sample_rate,
                      audio_tracks[default_audio_track_id].channels, 0, TRUE)

----------------------------------------------------------------------------
(* Precondition errors *)

BadFormat(fmt) == fmt.sample_rate <= 0 \/ fmt.channels <= 0

BadSetFormatArgs == {a \in SetFormatArgs : a.client = "null" \/ BadFormat(a.fmt)}

BadPublishArgs ==
    {a \in PublishArgs : a.client = "null" \/ a.pcm = "null" \/ BadFormat(a.fmt)}

BadCreateArgs ==
    {a \in CreateArgs : \/ a.client = "null" \/ a.config = "null"
                        \/ a.out_track = "null" \/ BadFormat(a.fmt)}

\* the call came back with one of the precondition codes and nothing of
\* the client moved: connection, registry, default, id counter,
\* configuration, statistics, what went out on the network
RejectedUntouched ==
    /\ res'.code \in {1, 4, 5}
    /\ UNCHANGED ClientState

\* C20: a null handle or pointer, or a non-positive sample rate or channel
\* count, passed to lk_set_audio_output_format, lk_publish_audio_pcm_i16
\* or lk_audio_track_create is rejected in every state of the client,
\* connected or not: the call returns an error and leaves the connection,
\* the registry, the default reference, the id counter, the configuration
\* and all counters as they were, and nothing goes out on the network.
C20_PreconditionErrorsMutateNothing ==
    /\ [](/\ \A a \in BadSetFormatArgs : ENABLED SetFormatCall(a)
          /\ \A a \in BadPublishArgs : ENABLED PublishCall(a)
          /\ \A a \in BadCreateArgs : ENABLED CreateCall(a))
    /\ [][ /\ (\E a \in BadSetFormatArgs : SetFormatCall(a)) => RejectedUntouched
           /\ (\E a \in BadPublishArgs : PublishCall(a)) => RejectedUntouched
           /\ (\E a \in BadCreateArgs : CreateCall(a)) => RejectedUntouched ]_vars

\* an invalid output format was refused on a connected client that has a
\* pipeline and an output format of its own
C20_Witness ==
    /\ res = err("lk_set_audio_output_format", 5, <<"invalid audio output format">>)
    /\ room # NoRoom
    /\ audio_tracks # << >>
    /\ audio_output_format = [sample_rate |-> 20, channels |-> 1]

----------------------------------------------------------------------------
(* Data sender: the topic *)

\* the call of lk_send_data_ex on a connected client that makes its first
\* attempt
SendAttempt(len, reliability, label) ==
    /\ room # NoRoom
    /\ \E first_ok \in BOOLEAN : lk_send_data_ex(len, reliability, label, first_ok)

\* the tier a payload of this length goes out on
SentOn(reliability, len) ==
    IF reliability = "Lossy" /\ len <= LOSSY_MAX THEN "lossy" ELSE "reliable"

\* C21 as claimed: whenever a label is supplied the send goes out on that
\* label.
C21_SuppliedLabelIsTopic ==
    [][ \A len \in {LOSSY_MAX, LOSSY_MAX + 1}, rel \in Tiers,
           label \in LabelValues \ {NullLabel} :
          SendAttempt(len, rel, label) => wire'.topic = label ]_vars

\* C21: a send goes out on its explicit label when one is supplied and is
\* UTF-8, and on "custom" when the supplied label is not UTF-8; without a
\* label it goes out on the default label of the tier the payload is
\* actually sent on (the Reliable default for a downgraded Lossy payload),
\* as lk_set_default_data_labels last set it; the retry uses the topic of
\* the first attempt, and only lk_set_default_data_labels changes the
\* defaults: each label that is supplied and is UTF-8 replaces its tier's.
C21_TopicResolution ==
    [][ /\ \A len \in {LOSSY_MAX, LOSSY_MAX + 1}, rel \in Tiers, label \in LabelValues :
             (lock = "free" /\ wire'.attempts = 1 /\ SendAttempt(len, rel, label)) =>
                wire'.topic = IF label = NullLabel
                                THEN data_labels[SentOn(rel, len)]
                              ELSE IF label = NonUtf8 THEN "custom"
                              ELSE label
        /\ lock = "send" => wire'.topic = wire.topic
        /\ data_labels' # data_labels =>
             \E reliable_label \in LabelValues, lossy_label \in LabelValues :
                /\ lk_set_default_data_labels(reliable_label, lossy_label)
                /\ \A tier \in {"reliable", "lossy"} :
                     LET given == IF tier = "reliable" THEN reliable_label
                                                       ELSE lossy_label
                     IN data_labels'[tier] =
                          IF given \in {NullLabel, NonUtf8}
                            THEN data_labels[tier] ELSE given ]_vars

\* an unlabeled Lossy payload over the lossy limit went out on the
\* Reliable default label a caller had configured
C21_Witness ==
    /\ wire.reliability = "Lossy"
    /\ wire.tier = "Reliable"
    /\ wire.topic = "pose"
    /\ data_labels = [reliable |-> "pose", lossy |-> "mocap-bin-lossy"]

----------------------------------------------------------------------------
(* Data sender against the client lock *)

\* C22 as claimed: a send that is between its first attempt and its retry
\* does not hold the client lock, so a call that needs the lock
\* (lk_get_data_stats, lk_client_is_ready) can proceed meanwhile.
C22_SendHoldsNoLock ==
    sendOp.active =>
       /\ lock = "free"
       /\ ENABLED lk_get_data_stats
       /\ ENABLED lk_client_is_ready

----------------------------------------------------------------------------
(* Event loop against the client lock *)

\* C23 as claimed: an event loop that has reached the point where it wants
\* the lock for a callback never waits there: whoever holds the lock, the
\* loop can go on (skipping the callback when the lock is taken).
C23_DispatcherNeverWaits ==
    \A s \in Sessions :
       (dispatch[s].busy /\ dispatch[s].stage = "locking") =>
          ENABLED (DispatchCall(s) \/ DispatchRecv(s))

\* C24 as claimed: while a foreign callback entered by an event loop is
\* running, the client lock is free, so a call into the API on the same
\* client (lk_client_is_ready, lk_get_data_stats) can proceed, whether it
\* comes from inside the callback or from another thread.
C24_CallbacksRunUnlocked ==
    \A s \in Sessions :
       (dispatch[s].busy /\ dispatch[s].stage = "calling") =>
          /\ lock = "free"
          /\ ENABLED lk_client_is_ready
          /\ ENABLED lk_get_data_stats

----------------------------------------------------------------------------
(* Registration: what a failed attempt leaves behind *)

\* the error text being "not connected", alone or wrapped by the caller
SaysNotConnected(r) ==
    r.code # 0 /\ \E i \in DOMAIN r.msg : r.msg[i] = "not connected"

\* a registration is asked for, explicitly or by a push on the default track
RegistrationCall(publish_ok) ==
    \/ \E cfg \in Formats, label \in Labels : lk_audio_track_create(cfg, label, publish_ok)
    \/ \E cfg \in Formats : lk_publish_audio_pcm_i16(cfg.sample_rate, cfg.channels, 0, publish_ok)

\* C26 as claimed: a registration asked for while the client has no
\* connection, explicitly or through the default track, fails with "not
\* connected" and constructs nothing: the registry and the default
\* reference stay as they were, and no audio source, local track, ring or
\* pacing task is built for the call.
C26_NoConnectionBuildsNothing ==
    [][ (room = NoRoom /\ \E publish_ok \in BOOLEAN : RegistrationCall(publish_ok)) =>
           /\ SaysNotConnected(res')
           /\ audio_tracks' = audio_tracks
           /\ default_audio_track_id' = default_audio_track_id
           /\ discarded' = {} ]_vars

\* the publish round-trip of a registration failed
PublishFailed(r) ==
    r.code = 7 /\ \E i \in DOMAIN r.msg : r.msg[i] = "publish failed"

\* an explicit registration that succeeds
CreateSucceeds ==
    \E cfg \in Formats, label \in Labels :
       /\ lk_audio_track_create(cfg, label, TRUE)
       /\ res'.code = 0
       /\ next_audio_track_id \in handles'
       /\ next_audio_track_id \in DOMAIN audio_tracks'

\* C27: when the publish of a registration fails, the call returns an
\* error, the registry keeps exactly the entries it had, no handle is
\* issued, the default reference is not set by an implicit attempt (and is
\* left alone by an explicit one), and neither a ring nor a pacing task has
\* been made; and once such a failure has been returned, a registration on
\* the same connection can succeed.
C27_FailedPublishLeavesNothing ==
    /\ [][ ( /\ room # NoRoom
              /\ RegistrationCall(FALSE)
              /\ "src" \in discarded'     \* the call got as far as building
              /\ PublishFailed(res') ) =>
              /\ audio_tracks' = audio_tracks
              /\ handles' = handles
              /\ default_audio_track_id' =
                    IF res'.op = "lk_publish_audio_pcm_i16" THEN NoId
                    ELSE default_audio_track_id
              /\ "ring" \notin discarded'
              /\ "worker" \notin discarded'
              /\ lock' = "free" ]_vars
    /\ [](( PublishFailed(res) /\ room # NoRoom /\ lock = "free"
            /\ work < MaxWork ) => ENABLED CreateSucceeds)

\* an implicit registration has just failed in its publish, next to an
\* explicit track that is still registered
C27_Witness ==
    /\ PublishFailed(res)
    /\ res.op = "lk_publish_audio_pcm_i16"
    /\ room # NoRoom
    /\ default_audio_track_id = NoId
    /\ DOMAIN audio_tracks # {}
    /\ discarded = {"src", "local_track"}

----------------------------------------------------------------------------
(* Pacing worker: the size of a frame *)

\* C28 as claimed: the frame buffer of every pipeline holds
\* max(1, sample_rate / 100) * channels samples, and every frame handed to
\* the audio source has samples_per_channel >= 1 with
\* samples_per_channel * channels equal to that size, also below 100 Hz
\* with more than one channel.
C28_FrameSize ==
    \A id \in DOMAIN audio_tracks :
       LET p == audio_tracks[id]
           size == Max(1, p.sample_rate \div 100) * p.channels
       IN /\ Len(p.buf) = size
          /\ p.frame # NoFrame =>
                /\ p.frame.samples_per_channel >= 1
                /\ p.frame.samples_per_channel * p.frame.num_channels = size
                /\ Len(p.frame.data) = size

----------------------------------------------------------------------------
(* Pacing worker: a capture the audio source refuses *)

\* the worker of pipeline id hands over a frame and capture_frame fails
CaptureFails(id) == WorkerPop(id, FALSE) \/ WorkerUnderrun(id, FALSE)

\* the worker of pipeline id can take its next step
WorkerCanStep(id) ==
    ENABLED (\E capture_ok \in BOOLEAN :
                WorkerPop(id, capture_ok) \/ WorkerUnderrun(id, capture_ok))

\* s is what is left of r after some of its head was taken
IsSuffix(s, r) ==
    Len(s) <= Len(r) /\ s = SubSeq(r, Len(r) - Len(s) + 1, Len(r))

\* C29: a capture_frame call that fails is swallowed. The step in which it
\* fails reports nothing (the last result any caller got, the lock, the
\* registry's keys, the default reference and the handles are as before),
\* the samples of the refused frame are gone from the ring and are not put
\* back (the ring is what was left behind them), and the worker is back at
\* its tick with an empty frame in progress; and whenever the last capture
\* of a pipeline failed the worker has not stopped: it can take its next
\* tick (as long as the run has work left for an idle tick).
C29_CaptureFailureSwallowed ==
    /\ [][ \A id \in DOMAIN audio_tracks :
             CaptureFails(id) =>
                /\ res' = res
                /\ lock' = lock
                /\ DOMAIN audio_tracks' = DOMAIN audio_tracks
                /\ default_audio_track_id' = default_audio_track_id
                /\ handles' = handles
                /\ audio_tracks'[id].got = 0
                /\ audio_tracks'[id].capture = "err"
                /\ IsSuffix(audio_tracks'[id].ring, audio_tracks[id].ring)
                /\ Len(audio_tracks[id].ring) - Len(audio_tracks'[id].ring)
                      = audio_tracks'[id].frame.real - audio_tracks[id].got
                /\ audio_tracks'[id].captured =
                      audio_tracks[id].captured
                         \o SubSeq(audio_tracks'[id].frame.data, 1,
                                   audio_tracks'[id].frame.real) ]_vars
    /\ [](\A id \in DOMAIN audio_tracks :
            (audio_tracks[id].capture = "err"
               /\ (work < MaxWork \/ audio_tracks[id].ring # << >>
                     \/ audio_tracks[id].got > 0))
              => WorkerCanStep(id))

\* the audio source refused the last frame of a pipeline, which carried
\* samples, and the next samples are already waiting in the ring
C29_Witness ==
    \E id \in DOMAIN audio_tracks :
       /\ audio_tracks[id].capture = "err"
       /\ audio_tracks[id].frame.real >= 1
       /\ audio_tracks[id].ring # << >>
       /\ audio_tracks[id].got = 0

----------------------------------------------------------------------------
(* Registry: the id counter *)

\* the step is a call of lk_audio_track_create
ExplicitCall ==
    \E cfg \in Formats, label \in Labels, publish_ok \in BOOLEAN :
       lk_audio_track_create(cfg, label, publish_ok)

\* a call that got as far as register_audio_pipeline
RegistrationAttempt ==
    work' = work + 1 /\ \E publish_ok \in BOOLEAN : RegistrationCall(publish_ok)

\* C30: the id counter is never 0 and stays within its width; 0 is never
\* the key of a pipeline, a handle or the default reference; every
\* registration attempt, failed or not, moves the counter on by one, from
\* the last value of its width to 1 (0 is skipped), and a successful one
\* registers the pipeline under the value the counter had (that value is
\* the handle of an explicit track, the default reference of an implicit
\* one); no other step moves the counter. (A new client starts at 1: Init.)
C30_IdCounter ==
    /\ [](/\ next_audio_track_id \in 1..(IdModulus - 1)
          /\ 0 \notin DOMAIN audio_tracks
          /\ 0 \notin handles
          /\ default_audio_track_id # 0)
    /\ [][ /\ RegistrationAttempt =>
                /\ next_audio_track_id' =
                      IF next_audio_track_id = IdModulus - 1 THEN 1
                      ELSE next_audio_track_id + 1
                /\ (IF ExplicitCall THEN res'.code = 0 ELSE lock' = "push") =>
                      /\ next_audio_track_id \in DOMAIN audio_tracks'
                      /\ IF ExplicitCall
                           THEN handles' = handles \cup {next_audio_track_id}
                           ELSE default_audio_track_id' = next_audio_track_id
           /\ ~RegistrationAttempt =>
                /\ next_audio_track_id' = next_audio_track_id
                /\ handles' \subseteq handles ]_vars

\* the counter has gone around: the last id of the width was handed out
\* and the counter stands at 1 again
C30_Witness ==
    /\ next_audio_track_id = 1
    /\ (IdModulus - 1) \in handles
    /\ (IdModulus - 1) \in DOMAIN audio_tracks

----------------------------------------------------------------------------
(* Cancellation *)

\* C25 as claimed: once lk_disconnect has returned (the client holds no
\* room), every task of the closed connection is stopped: no pipeline, and
\* so no pacing task, is left, and no forwarding task is running any more,
\* so that none can hand a frame to the audio callback.
C25_DisconnectStopsEveryTask ==
    room = NoRoom =>
       /\ DOMAIN audio_tracks = {}
       /\ \A t \in DOMAIN forwards : ~forwards[t].running

----------------------------------------------------------------------------
(* The pacing worker and the client lock *)

WorkerStep == \E id \in Ids : WorkerPop(id, TRUE) \/ WorkerUnderrun(id, TRUE)

\* whatever holds the lock, the worker of a live pipeline can take its
\* next sample or, on an empty ring, deliver its zero-padded frame
WorkerRunsUnderAnyHolder ==
    \A id \in DOMAIN audio_tracks :
       LET p == audio_tracks[id]
       IN /\ p.ring # << >> => ENABLED WorkerPop(id, TRUE)
          /\ (p.ring = << >> /\ (p.got > 0 \/ work < MaxWork))
                => ENABLED WorkerUnderrun(id, TRUE)

\* C31: the pacing worker never acquires the client lock: while a push, a
\* send in its backoff or a foreign callback holds it, the worker of every
\* live pipeline can still pop and deliver its frame, and a worker step
\* neither takes nor releases the lock nor disturbs the holder's operation.
C31_PacingTakesNoLock ==
    /\ [](lock # "free" => WorkerRunsUnderAnyHolder)
    /\ [][WorkerStep => /\ lock' = lock
                        /\ pushOp' = pushOp
                        /\ sendOp' = sendOp
                        /\ dispatch' = dispatch]_vars

\* C31 witness: a push is in progress under the lock and the worker has
\* already popped a sample of that very push from the ring.
C31_Witness ==
    /\ lock = "push"
    /\ pushOp.active
    /\ pushOp.track_id \in DOMAIN audio_tracks
    /\ \E i \in 1..pushOp.pushed :
          pushOp.data[i] \notin Range(audio_tracks[pushOp.track_id].ring)

----------------------------------------------------------------------------
(* The registry and the connection it was filled on *)

\* C32: every pipeline of the registry, the default one included, was
\* published on the connection the client holds now (a connect on a
\* connected client leaves nothing of the previous connection behind).
C32_RegistryOfCurrentConnection ==
    /\ \A id \in DOMAIN audio_tracks : audio_tracks[id].conn = room
    /\ default_audio_track_id # NoId =>
          /\ default_audio_track_id \in DOMAIN audio_tracks
          /\ audio_tracks[default_audio_track_id].conn = room

----------------------------------------------------------------------------
(* Interleaving *)

\* C33: whenever the worker of a pipeline is between two ticks and no push
\* to that pipeline is in progress, the number of samples queued in its
\* ring is a multiple of its channel count.
C33_RingHoldsWholeFrames ==
    \A id \in DOMAIN audio_tracks :
       LET p == audio_tracks[id]
       IN (p.got = 0 /\ ~(lock = "push" /\ pushOp.track_id = id))
            => Len(p.ring) % p.channels = 0

----------------------------------------------------------------------------
(* Callback slots and their invocations *)

CallbackSlots == {"data_cb", "data_cb_ex", "connection_cb", "audio_cb"}

\* the entries a step appends to the callback log
Logged == { cbLog'[i] : i \in (Len(cbLog) + 1)..Len(cbLog') }

SetterReturns ==
    /\ res'.op \in {"lk_client_set_data_callback", "lk_client_set_audio_callback",
                    "lk_set_connection_callback"}
    /\ callbacks' # callbacks

\* C34: every invocation of a foreign callback is made with the (cb, user)
\* pair its slot holds at that moment, read under the lock the setters
\* take: once a setter has returned having cleared or replaced a pair, no
\* later step invokes the pair that was there before, and while a callback
\* runs no setter gets through.
C34_ReplacedCallbackNeverInvoked ==
    /\ [](\A slot \in CallbackSlots : callbacks[slot] <=> callbacks.user[slot] # 0)
    /\ [][ /\ Len(cbLog') >= Len(cbLog)
           /\ \A e \in Logged :
                 e.what = "call" =>
                    /\ callbacks[e.cb]
                    /\ e.user = callbacks.user[e.cb]
                    /\ callbacks' = callbacks
           /\ SetterReturns => (lock = "free" /\ Logged = {}) ]_vars

\* C34 witness: a callback was invoked, a setter then replaced it, and the
\* next invocation of that slot went to the replacement.
C34_Witness ==
    \E i, j \in DOMAIN cbLog :
       /\ i < j
       /\ cbLog[i].what = "call" /\ cbLog[j].what = "call"
       /\ cbLog[i].cb = cbLog[j].cb
       /\ cbLog[i].user = 1 /\ cbLog[j].user = 2
       /\ callbacks.user[cbLog[j].cb] = 2

----------------------------------------------------------------------------
(* Asynchronous connection attempts *)

\* C35: a client holds one connection at a time: a connection held is
\* given up only by closing it (the handle goes back to None), never by
\* storing another connection over it, whichever attempts were in flight;
\* and only the event loop of the connection held is running.
C35_OneConnectionAtATime ==
    [][room # NoRoom => room' \in {room, NoRoom}]_vars

----------------------------------------------------------------------------
(* Destroying the client *)

\* C36: once lk_client_destroy has returned, no foreign callback of the
\* client is entered, no pacing worker delivers a frame, the event loop
\* takes no event and no forwarding task takes a frame.
C36_DestroyStopsEverything ==
    [][destroyed =>
         /\ Len(cbLog') <= Len(cbLog)
         /\ ~\E id \in Ids : WorkerPop(id, TRUE) \/ WorkerUnderrun(id, TRUE)
         /\ ~\E s \in DOMAIN dispatch : DispatchRecv(s)
         /\ ~\E t \in DOMAIN forwards : ForwardFrame(t)]_vars

----------------------------------------------------------------------------
(* Track ids over the life of a client *)

\* handles whose pipeline is gone (a disconnect cleared the registry)
StaleHandles == handles \ DOMAIN audio_tracks

\* C37: short of the wrap of the counter no id is handed out twice: every
\* id in use (a handle, a registry key, the default reference) lies below
\* the counter, which never goes back, not at a failed registration and not
\* at a disconnect; so a handle whose pipeline a disconnect removed never
\* resolves to a pipeline again, and destroying it returns ok, removes no
\* pipeline and leaves the default reference as it is.
C37_IdsNeverReused ==
    /\ [](/\ \A h \in handles \cup DOMAIN audio_tracks : h < next_audio_track_id
          /\ default_audio_track_id < next_audio_track_id)
    /\ [][ /\ next_audio_track_id' >= next_audio_track_id
           /\ RegistrationAttempt => next_audio_track_id' = next_audio_track_id + 1
           /\ \A h \in StaleHandles :
                 /\ h \notin DOMAIN audio_tracks'
                 /\ h # default_audio_track_id'
                 /\ lk_audio_track_destroy(h) =>
                       /\ res' = ok("lk_audio_track_destroy")
                       /\ audio_tracks' = audio_tracks
                       /\ default_audio_track_id' = default_audio_track_id
                       /\ h \notin handles' ]_vars
    /\ [](lock = "free" => \A h \in StaleHandles : ENABLED lk_audio_track_destroy(h))

\* C37 witness: after a disconnect and a reconnect a handle of the first
\* connection is still held while a track and a default pipeline created on
\* the second connection are live under later ids.
C37_Witness ==
    \E h \in StaleHandles :
       /\ room # NoRoom
       /\ default_audio_track_id # NoId
       /\ \E i \in handles \ StaleHandles :
             /\ i > h
             /\ audio_tracks[i].conn = room
             /\ audio_tracks[default_audio_track_id].conn = room
             /\ default_audio_track_id > h

----------------------------------------------------------------------------
(* The send transaction and the connection *)

\* nothing that stores or closes the connection can run
ConnectionFrozen ==
    /\ ~ENABLED lk_disconnect
    /\ \A net_ok \in BOOLEAN : ~ENABLED lk_connect(net_ok)
    /\ \A t \in pending, net_ok \in BOOLEAN : ~ENABLED AsyncConnectDone(t, net_ok)

\* C38: from the connection check of lk_send_data_ex to the return of its
\* last attempt the connection stays the one that was checked: while a send
\* is in its backoff the client is connected, no disconnect, connect or
\* finished async attempt can get at the connection (they wait for the
\* lock), and the step that ends the wait is the send's own retry.
C38_SendAtomic ==
    /\ [](sendOp.active => (lock = "send" /\ room # NoRoom /\ ConnectionFrozen))
    /\ [][sendOp.active =>
            /\ room' = room
            /\ ~sendOp'.active => (\E retry_ok \in BOOLEAN : SendRetry(retry_ok))]_vars
    /\ [][(\E first_ok \in BOOLEAN :
              lk_send_data_ex(LOSSY_MAX, "Reliable", NullLabel, first_ok))
            => /\ room' = room
               /\ (sendOp'.active \/ data_stats' # data_stats) => room # NoRoom]_vars

\* C38 witness: a send is in its backoff on a connected client while an
\* async connection attempt, issued before the client was connected, is
\* waiting to store its connection.
C38_Witness ==
    /\ sendOp.active
    /\ room # NoRoom
    /\ pending # {}
    /\ wire.attempts = 1

----------------------------------------------------------------------------
(* What the connection callback is told about an async attempt *)

\* positions of the callback log at which attempt k is reported in state
Reports(log, k, state) ==
    { i \in DOMAIN log : /\ log[i].what = "call"
                         /\ log[i].cb = "connection_cb"
                         /\ log[i].session = 0
                         /\ log[i].seq = k
                         /\ log[i].arg.state = state }

Outcomes(log, k) == Reports(log, k, "Connected") \cup Reports(log, k, "Failed")

Attempts == 1..MaxWork

InFlight(k) == \E t \in pending : t.id = k

AsyncCall == lk_connect_async /\ work' = work + 1

\* an attempt is reported at most once as begun and at most once as ended,
\* begun before ended, Connected with reason code 0 and Failed with 1, and
\* not as ended while it is in flight
ReportedInOrder ==
    \A k \in Attempts :
       /\ Cardinality(Reports(cbLog, k, "Connecting")) <= 1
       /\ Cardinality(Outcomes(cbLog, k)) <= 1
       /\ InFlight(k) => Outcomes(cbLog, k) = {}
       /\ \A i \in Reports(cbLog, k, "Connecting"), j \in Outcomes(cbLog, k) : i < j
       /\ \A i \in Reports(cbLog, k, "Connecting") \cup Reports(cbLog, k, "Connected") :
             cbLog[i].arg.reason_code = 0
       /\ \A i \in Reports(cbLog, k, "Failed") : cbLog[i].arg.reason_code = 1

\* the call: refused with 104 and without a trace on a connected client,
\* otherwise ok with Connecting reported to the registered callback and
\* one attempt started
CallStartsOneAttempt ==
    AsyncCall =>
       IF room # NoRoom
         THEN /\ res' = err("lk_connect_with_role_async", 104, <<"already connected">>)
              /\ cbLog' = cbLog
              /\ pending' = pending
              /\ nextTask' = nextTask
         ELSE /\ res' = ok("lk_connect_with_role_async")
              /\ \E t \in pending' : t.id = nextTask
              /\ ~InFlight(nextTask)
              /\ IF callbacks.connection_cb
                   THEN /\ Len(cbLog') = Len(cbLog) + 2
                        /\ Reports(cbLog', nextTask, "Connecting") = {Len(cbLog) + 1}
                   ELSE cbLog' = cbLog

\* the end of an attempt: with a callback registered exactly one outcome
\* is reported, and Connected only with the connection handle set
AttemptEndsWithOneReport ==
    \A k \in Attempts :
       (InFlight(k) /\ ~InFlight(k)') =>
          IF callbacks.connection_cb
            THEN /\ Len(cbLog') = Len(cbLog) + 2
                 /\ Outcomes(cbLog', k) = {Len(cbLog) + 1}
                 /\ Reports(cbLog', k, "Connected") # {} =>
                       (room' # NoRoom /\ room' # room)
                 /\ Reports(cbLog', k, "Failed") # {} => room' = room
            ELSE cbLog' = cbLog

\* C39: an lk_connect_with_role_async call on a client that holds no
\* connection returns ok, reports Connecting to the registered connection
\* callback and starts one attempt; the attempt comes to an end (again and
\* again no attempt is in flight, so one in flight now has ended by the
\* next such moment), and at its end the registered callback is told
\* exactly one of Connected (reason code 0, the connection handle set) or
\* Failed (reason code 1), after Connecting; a call on a connected client
\* returns 104, reports nothing and starts nothing.
C39_AsyncAttemptReported ==
    /\ []ReportedInOrder
    /\ [][CallStartsOneAttempt /\ AttemptEndsWithOneReport]_vars
    /\ []<>(pending = {})

\* C39 witness: the callback has been told Connecting and then Failed for
\* one attempt and Connecting and then Connected for a later one, and a
\* call on the connected client has just been refused.
C39_Witness ==
    /\ res = err("lk_connect_with_role_async", 104, <<"already connected">>)
    /\ room # NoRoom
    /\ \E k, m \in Attempts :
          /\ k < m
          /\ Reports(cbLog, k, "Connecting") # {}
          /\ Reports(cbLog, k, "Failed") # {}
          /\ Reports(cbLog, m, "Connecting") # {}
          /\ Reports(cbLog, m, "Connected") # {}

====
